---- MODULE Spec2Model ----
(***************************************************************************)
(* Model of the data-preparation pipeline of EcommerceBankFraudML:         *)
(*   scripts/geolocation_analysis.py  GeolocationAnalyzer                  *)
(*   scripts/data_exploration.py      EDA.detect_outliers                  *)
(*   scripts/feature_engineering.py   FeatureEngineer                      *)
(*   scripts/data_cleaning.py         DataCleaner                          *)
(* Every component is a batch transform; each has its own specification    *)
(* whose initial states enumerate the inputs and whose actions are the     *)
(* calls.                                                                  *)
(***************************************************************************)
EXTENDS Integers, Sequences, FiniteSets, TLC

VARIABLES
    ip_text,      \* argument of ip_to_int: a string, as a tuple of characters
    ip_ret,       \* what ip_to_int returned (Pending before the call)
    ip_cell,      \* a value of the ip_address column
    ip_key,       \* the ip_int computed for ip_cell (Pending before)
    geo_args,     \* the tables as passed to merge_fraud_with_geolocation
    fraud_data,   \* the caller's fraud table (the call works on it in place)
    ip_data,      \* the caller's interval table (likewise)
    geo_ret,      \* the table the call returned (Pending before)
    geo_err,      \* the exception the call caught and logged, or None
    iqr_data,     \* the caller's table given to EDA.detect_outliers
    iqr_hist,     \* per call made: the table before it and its arguments
    iqr_ret,      \* what the last call returned (Pending before)
    cl_args,      \* the table given to create_features (Pending before the
                  \* call)
    cl_data,      \* the caller's table (the call works on it in place)
    cl_ret,       \* what the call returned: the table, or the exception it
                  \* raised
    nm_scaler,    \* self.scaler of one DataCleaner: what the MinMaxScaler
                  \* has fitted (Unfitted after __init__)
    nm_hist,      \* the calls of normalize_columns on that DataCleaner so
                  \* far: the column given and the column afterwards
    tx_args,      \* the table and column names given to
                  \* create_transaction_features (Pending before the call)
    tx_data,      \* the caller's table (the call works on it in place and
                  \* returns it)
    tx_err,       \* the exception the call caught and logged, or None
    tx_ret,       \* what the caller got from the call (Pending before): the
                  \* table returned, on every path
    enc_args,     \* the table and the arguments given to encode_categorical
                  \* (Pending before the call)
    enc_ret,       \* the table the call returned
    cd_args,      \* the table and the lists given to clean_data (Pending before
                  \* the call)
    cd_trace,     \* the stages of clean_data that ran, in their order
    cd_ret,        \* what the caller got from clean_data: the table returned or
                  \* the exception raised
    ho_args,      \* the table, the pairs and the threshold given to
                  \* handle_outliers (Pending before the call)
    ho_trace,     \* the table after each pair of the call, in the order of
                  \* the pairs
    ho_ret,        \* the table handle_outliers returned
    md_fraud,     \* merge_datasets: the caller's fraud table
    md_ip,        \* merge_datasets: the caller's reference table
    md_args,      \* merge_datasets: the two tables as passed
    md_ret,       \* merge_datasets: the table returned, Pending before the
                  \* call, Null when the call raised
    md_err        \* merge_datasets: the exception that left the call, or Null

ipVars == <<ip_text, ip_ret, ip_cell, ip_key>>

geoVars == <<geo_args, fraud_data, ip_data, geo_ret, geo_err>>

iqrVars == <<iqr_data, iqr_hist, iqr_ret>>

txVars == <<tx_args, tx_data, tx_err, tx_ret>>

clVars == <<cl_args, cl_data, cl_ret>>

nmVars == <<nm_scaler, nm_hist>>

encVars == <<enc_args, enc_ret>>

cdVars == <<cd_args, cd_trace, cd_ret>>

hoVars == <<ho_args, ho_trace, ho_ret>>

mdVars == <<md_fraud, md_ip, md_args, md_ret, md_err>>

vars == <<ipVars, geoVars, iqrVars, txVars, clVars, nmVars, encVars, cdVars, hoVars, mdVars>>

(***************************************************************************)
(* Values                                                                  *)
(***************************************************************************)
\* Python's None / pandas' NaN / NaT
Null == [null |-> TRUE]

\* a call that has not been made yet
Pending == [pending |-> TRUE]

\* an argument that is not supplied in this run
Unused == [unused |-> TRUE]

\* an exception of the given class
Raise(e) == [raise |-> e]

IsRaise(v) == "raise" \in DOMAIN v

\* 2^16: an unsigned 32-bit word is kept as two 16-bit halves
Half == 65536

\* The word hi * 2^16 + lo
U32(h, l) == [hi |-> h, lo |-> l]

\* A value above 0xffffffff
TooBig == [hi |-> Half, lo |-> 0]

\* a <= b on words
LeqU32(a, b) == \/ a.hi < b.hi
                \/ a.hi = b.hi /\ a.lo <= b.lo

(***************************************************************************)
(* socket.inet_aton as the C library implements it                         *)
(***************************************************************************)
DecDigits == {"0", "1", "2", "3", "4", "5", "6", "7", "8", "9"}

HexLetters == {"a", "b", "c", "d", "e", "f"}

Spaces == {" ", "\n"}

\* value of a digit character
DigitVal(c) ==
    CASE c = "0" -> 0 [] c = "1" -> 1 [] c = "2" -> 2 [] c = "3" -> 3
      [] c = "4" -> 4 [] c = "5" -> 5 [] c = "6" -> 6 [] c = "7" -> 7
      [] c = "8" -> 8 [] c = "9" -> 9 [] c = "a" -> 10 [] c = "b" -> 11
      [] c = "c" -> 12 [] c = "d" -> 13 [] c = "e" -> 14 [] c = "f" -> 15

\* is c a digit of the given base
IsDigitOf(c, base) ==
    /\ c \in DecDigits \cup HexLetters
    /\ DigitVal(c) < base

\* acc * base + d, saturating at TooBig
Accumulate(acc, base, d) ==
    IF acc = TooBig THEN TooBig
    ELSE LET t == acc.lo * base + d
             h == acc.hi * base + (t \div Half)
         IN  IF h >= Half THEN TooBig ELSE U32(h, t % Half)

\* the digits of s from position j on, in the given base
RECURSIVE ScanDigits(_, _, _, _)
ScanDigits(s, j, base, acc) ==
    IF j <= Len(s) /\ IsDigitOf(s[j], base)
    THEN ScanDigits(s, j + 1, base, Accumulate(acc, base, DigitVal(s[j])))
    ELSE [val |-> acc, end |-> j]

\* strtoul(cp, &endp, 0) at position i of s, where s[i] is a decimal digit:
\* 0x.. is hexadecimal, 0.. is octal, anything else decimal
strtoul(s, i) ==
    IF /\ s[i] = "0"
       /\ i + 2 <= Len(s)
       /\ s[i + 1] = "x"
       /\ IsDigitOf(s[i + 2], 16)
    THEN ScanDigits(s, i + 2, 16, U32(0, 0))
    ELSE IF s[i] = "0"
         THEN ScanDigits(s, i, 8, U32(0, 0))
         ELSE ScanDigits(s, i, 10, U32(0, 0))

\* max[] with the same limit whatever the number of parts
LastPartMax_anyWidth(n) == U32(65535, 65535)

\* max[] of inet_aton: the limit of the last part, by the number of parts
\* already stored
LastPartMax(n) ==
    CASE n = 0 -> U32(65535, 65535)
      [] n = 1 -> U32(255, 65535)
      [] n = 2 -> U32(0, 65535)
      [] n = 3 -> U32(0, 255)

\* res.word | htonl(val): the bytes stored so far, then the last part
PackBytes(pp, val) ==
    LET vb == <<val.hi \div 256, val.hi % 256, val.lo \div 256, val.lo % 256>>
    IN  [bytes |-> [k \in 1..4 |-> IF k <= Len(pp) THEN pp[k] ELSE vb[k]]]

\* the loop of inet_aton from position i, with the bytes pp already stored;
\* Null stands for the return value 0 (OSError in Python)
RECURSIVE AtonLoop(_, _, _)
AtonLoop(s, i, pp) ==
    IF i > Len(s) \/ s[i] \notin DecDigits THEN Null
    ELSE LET r == strtoul(s, i)
         IN  IF r.val = TooBig THEN Null
             ELSE IF r.end <= Len(s) /\ s[r.end] = "."
                  THEN IF Len(pp) > 2 \/ ~LeqU32(r.val, U32(0, 255))
                       THEN Null
                       ELSE AtonLoop(s, r.end + 1, Append(pp, r.val.lo))
                  ELSE IF r.end <= Len(s) /\ s[r.end] \notin Spaces
                       THEN Null
                       ELSE IF ~LeqU32(r.val, LastPartMax(Len(pp)))
                            THEN Null
                            ELSE PackBytes(pp, r.val)

inet_aton(s) == AtonLoop(s, 1, <<>>)

\* struct.unpack("<I", b)[0]: least significant byte first
unpack_le(b) == U32(b[4] * 256 + b[3], b[2] * 256 + b[1])

\* struct.unpack("!I", b)[0]: four bytes, most significant first
unpack_be(b) == U32(b[1] * 256 + b[2], b[3] * 256 + b[4])


\* a string
Str(chars) == [chars |-> chars]

IsStr(v) == "chars" \in DOMAIN v

\* GeolocationAnalyzer.ip_to_int: the integer, or None when inet_aton raises
\* socket.error; the TypeError of a non-string argument is not caught
ip_to_int(ip) ==
    IF ~IsStr(ip) THEN Raise("TypeError")
    ELSE LET packed == inet_aton(ip.chars)
         IN  IF packed = Null THEN Null ELSE unpack_be(packed.bytes)

(***************************************************************************)
(* Texts                                                                   *)
(***************************************************************************)
DigitChar(d) ==
    CASE d = 0 -> "0" [] d = 1 -> "1" [] d = 2 -> "2" [] d = 3 -> "3"
      [] d = 4 -> "4" [] d = 5 -> "5" [] d = 6 -> "6" [] d = 7 -> "7"
      [] d = 8 -> "8" [] d = 9 -> "9"

\* str(n) of a non-negative integer kept as a word: its decimal digits
RECURSIVE DecStr(_)
DecStr(v) ==
    LET r == (v.hi % 10) * Half + v.lo
        q == U32(v.hi \div 10, r \div 10)
    IN  IF v.hi = 0 /\ v.lo < 10
        THEN <<DigitChar(v.lo)>>
        ELSE DecStr(q) \o <<DigitChar(r % 10)>>

\* the tokens joined by "."
RECURSIVE JoinDots(_)
JoinDots(toks) ==
    IF Len(toks) = 0 THEN <<>>
    ELSE IF Len(toks) = 1 THEN toks[1]
         ELSE toks[1] \o <<".">> \o JoinDots(Tail(toks))

\* the dotted-quad text "a.b.c.d" of four octets
DottedQuad(a, b, c, d) ==
    JoinDots(<<DecStr(U32(0, a)), DecStr(U32(0, b)),
               DecStr(U32(0, c)), DecStr(U32(0, d))>>)

(***************************************************************************)
(* Values of the ip_address column and their conversion (line 57)          *)
(***************************************************************************)
\* a number: sign, integer part of the magnitude, and whether a fractional
\* part follows
Num(neg, mag, frac) == [neg |-> neg, mag |-> mag, frac |-> frac]

\* float("inf")
Inf == [inf |-> TRUE]

\* a Python int: sign and magnitude
PyInt(neg, mag) == [neg |-> neg, mag |-> mag]

\* s without its leading and trailing white space
RECURSIVE Strip(_)
Strip(s) ==
    IF Len(s) = 0 THEN s
    ELSE IF s[1] \in Spaces THEN Strip(Tail(s))
         ELSE IF s[Len(s)] \in Spaces THEN Strip(SubSeq(s, 1, Len(s) - 1))
              ELSE s

\* int(s) of a string: an optional sign and decimal digits, else ValueError
int_of_text(s) ==
    LET t == Strip(s)
        signed == Len(t) > 0 /\ t[1] \in {"-", "+"}
        body == IF signed THEN Tail(t) ELSE t
        r == ScanDigits(body, 1, 10, U32(0, 0))
    IN  IF Len(body) = 0 \/ r.end <= Len(body)
        THEN Raise("ValueError")
        ELSE PyInt(signed /\ t[1] = "-" /\ r.val # U32(0, 0), r.val)

\* int(x) that keeps the sign of a number between -1 and 0
py_int_signed_zero(x) ==
    IF x = Inf THEN Raise("OverflowError")
    ELSE IF IsStr(x) THEN int_of_text(x.chars)
         ELSE PyInt(x.neg, x.mag)

\* int(x): truncation toward zero of a number, parsing of a string
py_int(x) ==
    IF x = Inf THEN Raise("OverflowError")
    ELSE IF IsStr(x) THEN int_of_text(x.chars)
         ELSE PyInt(x.neg /\ x.mag # U32(0, 0), x.mag)

\* str(n) of a Python int
py_str(n) == Str((IF n.neg THEN <<"-">> ELSE <<>>) \o DecStr(n.mag))

\* the lambda of line 57:
\*   ip_to_int(str(int(x))) if not pd.isna(x) else None
ip_int_of(x) ==
    IF x = Null THEN Null
    ELSE LET n == py_int(x)
         IN  IF IsRaise(n) THEN n ELSE ip_to_int(py_str(n))

(***************************************************************************)
(* Inputs of ip_to_int                                                     *)
(***************************************************************************)
\* the largest number of dot-separated parts of an input text
MaxParts == 5

\* largest octet value
MaxOctet == 255

OctetSamples == {0, 1, MaxOctet}

IpTokens ==
    {DecStr(U32(0, n)) : n \in OctetSamples \cup {MaxOctet + 1}}
        \cup {<<"a", "b", "c">>, <<>>}

TokenTexts ==
    UNION {{JoinDots(t) : t \in [1..n -> IpTokens]} : n \in 1..MaxParts}

ExtraTexts ==
    { <<"9","9","9",".","1",".","1",".","1">>,
      <<"0","1","0",".","0",".","0",".","1">>,
      <<"0","x","1","0",".","1",".","1",".","1">>,
      <<"0","x">>,
      <<"0","8">>,
      <<"1",".","2",".","3">>,
      <<"1",".","2",".","6","5","5","3","5">>,
      <<"1",".","2",".","6","5","5","3","6">>,
      <<"1",".","1","6","7","7","7","2","1","5">>,
      <<"1",".","1","6","7","7","7","2","1","6">>,
      <<"4","2","9","4","9","6","7","2","9","5">>,
      <<"4","2","9","4","9","6","7","2","9","6">>,
      <<"1",".","2",".","3",".","4"," ">>,
      <<"1",".","2",".","3",".","4"," ","x">>,
      <<"1",".","2",".","3",".","4","x">>,
      <<" ","1",".","2",".","3",".","4">>,
      <<"-","1">>,
      <<"5">> }

InputTexts == TokenTexts \cup ExtraTexts

MagSamples == {U32(0, 0), U32(0, 1), U32(0, 7), U32(1, 0),
               U32(Half - 1, Half - 1), TooBig}

CellTexts == { <<"a","b","c">>, <<>>, <<"7">>, <<"-","7">>, <<" ","7"," ">>,
               <<"0","1","0">>, <<"1",".","2",".","3",".","4">>,
               <<"9","9","9",".","1",".","1",".","1">>,
               <<"4","2","9","4","9","6","7","2","9","6">> }

CellValues ==
    {Null, Inf}
        \cup {Num(n, m, f) : n \in BOOLEAN, m \in MagSamples, f \in BOOLEAN}
        \cup {Str(t) : t \in CellTexts}

(***************************************************************************)
(* Specification of ip_to_int                                              *)
(***************************************************************************)
InitIp ==
    /\ md_fraud = Unused
    /\ md_ip = Unused
    /\ md_args = Unused
    /\ md_ret = Unused
    /\ md_err = Unused
    /\ ho_args = Unused
    /\ ho_trace = <<>>
    /\ ho_ret = Unused
    /\ cd_args = Unused
    /\ cd_trace = <<>>
    /\ cd_ret = Unused
    /\ enc_args = Unused
    /\ enc_ret = Unused
    /\ nm_scaler = Unused
    /\ nm_hist = <<>>
    /\ cl_args = Unused
    /\ cl_data = Unused
    /\ cl_ret = Unused
    /\ tx_args = Unused
    /\ tx_data = Unused
    /\ tx_err = Unused
    /\ tx_ret = Unused
    /\ iqr_data = Unused
    /\ iqr_hist = <<>>
    /\ iqr_ret = Unused
    /\ geo_args = Unused
    /\ fraud_data = Unused
    /\ ip_data = Unused
    /\ geo_ret = Unused
    /\ geo_err = Unused
    /\ \/ ip_text \in {Str(t) : t \in InputTexts} /\ ip_cell = Unused
       \/ ip_text = Unused /\ ip_cell \in CellValues
    /\ ip_ret = Pending
    /\ ip_key = Pending

\* one call ip_to_int(ip_text)
IpToInt ==
    /\ ip_text # Unused
    /\ ip_ret = Pending
    /\ ip_ret' = ip_to_int(ip_text)
    /\ UNCHANGED <<ip_text, ip_cell, ip_key, geoVars, iqrVars, txVars, clVars, nmVars, encVars, cdVars, hoVars, mdVars>>

\* the conversion of one value of the ip_address column
ConvertCell ==
    /\ ip_cell # Unused
    /\ ip_key = Pending
    /\ ip_key' = ip_int_of(ip_cell)
    /\ UNCHANGED <<ip_text, ip_cell, ip_ret, geoVars, iqrVars, txVars, clVars, nmVars, encVars, cdVars, hoVars, mdVars>>

NextIp == IpToInt \/ ConvertCell

SpecIp == InitIp /\ [][NextIp]_vars

(***************************************************************************)
(* Tables                                                                  *)
(***************************************************************************)
\* a DataFrame: its column names and its rows, each row a function from the
\* column names to values
Table(cols, rows) == [cols |-> cols, rows |-> rows]

\* row r with column c set to v
WithColumn(r, c, v) ==
    [x \in DOMAIN r \cup {c} |-> IF x = c THEN v ELSE r[x]]

\* row r without the columns cs
WithoutColumns(r, cs) == [x \in DOMAIN r \ cs |-> r[x]]

\* r put into a sequence sorted on column c, behind the rows that are not
\* greater than it
RECURSIVE InsertSorted(_, _, _)
InsertSorted(r, sorted, c) ==
    IF sorted = <<>> THEN <<r>>
    ELSE IF LeqU32(sorted[1][c], r[c])
         THEN <<sorted[1]>> \o InsertSorted(r, Tail(sorted), c)
         ELSE <<r>> \o sorted

\* DataFrame.sort_values(c): ascending, rows with equal values in their
\* earlier order
RECURSIVE sort_values(_, _)
sort_values(rows, c) ==
    IF rows = <<>> THEN <<>>
    ELSE InsertSorted(rows[Len(rows)],
                      sort_values(SubSeq(rows, 1, Len(rows) - 1), c), c)

\* the rows in ascending order of column c
IsSortedOn(rows, c) ==
    \A k \in 1..(Len(rows) - 1) : LeqU32(rows[k][c], rows[k + 1][c])

(***************************************************************************)
(* GeolocationAnalyzer.merge_fraud_with_geolocation                        *)
(***************************************************************************)
\* the dtype pandas infers for the values Series.apply collected: int64 for
\* integers only, float64 once a None is among integers, object otherwise
\* (all None, or no value at all)
apply_dtype(keys) ==
    IF Len(keys) > 0 /\ \A k \in 1..Len(keys) : keys[k] # Null
    THEN "int64"
    ELSE IF \E k \in 1..Len(keys) : keys[k] # Null
         THEN "float64"
         ELSE "object"

\* can Series.astype(int) convert the value
IntCastable(v) == v # Null

\* pd.merge_asof(left, right, left_on, right_on, direction='backward') on
\* sorted tables: each left row with the last right row whose key is not
\* above its own, or with nulls in the right columns when there is none
merge_asof(left, right, left_on, right_on, right_cols) ==
    [k \in 1..Len(left) |->
        LET l == left[k]
            cand == {j \in 1..Len(right) :
                        LeqU32(right[j][right_on], l[left_on])}
            last == CHOOSE j \in cand : \A i \in cand : i <= j
        IN  [c \in DOMAIN l \cup right_cols |->
                IF c \in DOMAIN l THEN l[c]
                ELSE IF cand = {} THEN Null
                     ELSE right[last][c]]]

\* the filter without its test of the upper bound
InBounds_lowerOnly(r) ==
    /\ r.lower_bound_ip_address # Null
    /\ LeqU32(r.lower_bound_ip_address, r.ip_int)

\* the filter of lines 81-84; a comparison with a null bound is false
InBounds(r) ==
    /\ r.lower_bound_ip_address # Null
    /\ r.upper_bound_ip_address # Null
    /\ LeqU32(r.lower_bound_ip_address, r.ip_int)
    /\ LeqU32(r.ip_int, r.upper_bound_ip_address)

\* the outcome of a call: the table returned, the caller's two tables as the
\* call left them, and the exception caught (None when the join completed)
Outcome(ret, fd, ipd, err) ==
    [ret |-> ret, fraud |-> fd, ip |-> ipd, err |-> err]

BoundCols == {"lower_bound_ip_address", "upper_bound_ip_address"}

\* line 57: the ip_int of every row, in row order
ip_int_column(fd) ==
    [k \in 1..Len(fd.rows) |-> ip_int_of(fd.rows[k].ip_address)]

\* the exception of the first row whose conversion raises
FirstRaise(keys) ==
    keys[CHOOSE k \in 1..Len(keys) :
            /\ IsRaise(keys[k])
            /\ \A j \in 1..(k - 1) : ~IsRaise(keys[j])].raise

\* lines 57-60: the table with the column ip_int, without the rows whose
\* ip_int is null (dropna(subset=['ip_int'], inplace=True))
with_ip_int(fd, keys) ==
    Table(fd.cols \cup {"ip_int"},
          SelectSeq([k \in 1..Len(fd.rows) |->
                        WithColumn(fd.rows[k], "ip_int", keys[k])],
                    LAMBDA r : r.ip_int # Null))

\* lines 67-68: sort_values(..., inplace=True)
sorted_on(t, c) == Table(t.cols, sort_values(t.rows, c))

\* lines 72-91: the asof merge, the filter on the bounds and the removal of
\* the bound columns
range_join(fd, ipd) ==
    LET kept == SelectSeq(merge_asof(fd.rows, ipd.rows, "ip_int",
                                     "lower_bound_ip_address", ipd.cols),
                          InBounds)
    IN  Table((fd.cols \cup ipd.cols) \ BoundCols,
              [k \in 1..Len(kept) |-> WithoutColumns(kept[k], BoundCols)])

\* lines 62-95, entered with the column ip_int assigned and its null rows
\* dropped
merge_sorted(fd, ipd, dtype) ==
    IF ~(BoundCols \subseteq ipd.cols)
    THEN Outcome(fd, fd, ipd, "KeyError")
    ELSE IF \E k \in 1..Len(ipd.rows), c \in BoundCols :
                ~IntCastable(ipd.rows[k][c])
         THEN Outcome(fd, fd, ipd, "ValueError")
         ELSE IF dtype # "int64"
              THEN \* merge_asof refuses keys of different dtypes
                   Outcome(sorted_on(fd, "ip_int"),
                           sorted_on(fd, "ip_int"),
                           sorted_on(ipd, "lower_bound_ip_address"),
                           "MergeError")
              ELSE Outcome(range_join(sorted_on(fd, "ip_int"),
                               sorted_on(ipd, "lower_bound_ip_address")),
                           sorted_on(fd, "ip_int"),
                           sorted_on(ipd, "lower_bound_ip_address"),
                           "")

merge_fraud_with_geolocation(fd, ipd) ==
    IF "ip_address" \notin fd.cols
    THEN Outcome(fd, fd, ipd, "KeyError")
    ELSE IF \E k \in 1..Len(fd.rows) : IsRaise(ip_int_column(fd)[k])
         THEN \* the lambda raised: the column was never assigned
              Outcome(fd, fd, ipd, FirstRaise(ip_int_column(fd)))
         ELSE merge_sorted(with_ip_int(fd, ip_int_column(fd)), ipd,
                           apply_dtype(ip_int_column(fd)))

(***************************************************************************)
(* Inputs of merge_fraud_with_geolocation                                  *)
(***************************************************************************)
\* the largest number of records of a fraud table
MaxRecs == 2

\* the largest number of intervals of a reference table
MaxIntervals == 2

\* the keys and bounds are drawn from KeyOf(0) .. KeyOf(MaxKey)
MaxKey == 3

\* an increasing sample of addresses that uses both halves of the word:
\* 0, 65535, 65536, 131071, ...
KeyOf(k) == U32(k \div 2, (k % 2) * (Half - 1))

PayloadOf(j) == CASE j = 1 -> "A" [] j = 2 -> "B" [] OTHER -> "C"

\* None, -1, "abc", -0.5, 65535.5, 4294967296 and whole addresses
GeoCells ==
    {Null, Num(TRUE, U32(0, 1), FALSE), Str(<<"a", "b", "c">>),
     Num(TRUE, U32(0, 0), TRUE), Num(FALSE, KeyOf(1), TRUE),
     Num(FALSE, TooBig, FALSE)}
        \cup {Num(FALSE, KeyOf(k), FALSE) : k \in 0..MaxKey}

IntervalSamples ==
    {<<lo, up>> : lo \in 0..MaxKey, up \in 0..MaxKey} \ 
        {<<lo, up>> \in (0..MaxKey) \X (0..MaxKey) : lo > up}

FraudTables ==
    UNION {{Table({"id", "ip_address"},
                  [k \in 1..n |-> [id |-> k, ip_address |-> cells[k]]]) :
                cells \in [1..n -> GeoCells]} : n \in 0..MaxRecs}

IpTables ==
    UNION {{Table(BoundCols \cup {"country"},
                  [j \in 1..n |->
                      [lower_bound_ip_address |-> KeyOf(iv[j][1]),
                       upper_bound_ip_address |-> KeyOf(iv[j][2]),
                       country |-> PayloadOf(j)]]) :
                iv \in [1..n -> IntervalSamples]} : n \in 0..MaxIntervals}

(***************************************************************************)
(* Specification of merge_fraud_with_geolocation                           *)
(***************************************************************************)
InitGeo ==
    /\ md_fraud = Unused
    /\ md_ip = Unused
    /\ md_args = Unused
    /\ md_ret = Unused
    /\ md_err = Unused
    /\ ho_args = Unused
    /\ ho_trace = <<>>
    /\ ho_ret = Unused
    /\ cd_args = Unused
    /\ cd_trace = <<>>
    /\ cd_ret = Unused
    /\ enc_args = Unused
    /\ enc_ret = Unused
    /\ nm_scaler = Unused
    /\ nm_hist = <<>>
    /\ cl_args = Unused
    /\ cl_data = Unused
    /\ cl_ret = Unused
    /\ tx_args = Unused
    /\ tx_data = Unused
    /\ tx_err = Unused
    /\ tx_ret = Unused
    /\ iqr_data = Unused
    /\ iqr_hist = <<>>
    /\ iqr_ret = Unused
    /\ ip_text = Unused
    /\ ip_ret = Unused
    /\ ip_cell = Unused
    /\ ip_key = Unused
    /\ fraud_data \in FraudTables
    /\ ip_data \in IpTables
    /\ geo_args = [fraud |-> fraud_data, ip |-> ip_data]
    /\ geo_ret = Pending
    /\ geo_err = Null

\* one call merge_fraud_with_geolocation(fraud_data, ip_data)
MergeFraudWithGeolocation ==
    /\ geo_ret = Pending
    /\ LET out == merge_fraud_with_geolocation(fraud_data, ip_data)
       IN  /\ geo_ret' = out.ret
           /\ fraud_data' = out.fraud
           /\ ip_data' = out.ip
           /\ geo_err' = IF out.err = "" THEN Null ELSE Raise(out.err)
    /\ UNCHANGED <<geo_args, ipVars, iqrVars, txVars, clVars, nmVars, encVars, cdVars, hoVars, mdVars>>

NextGeo == MergeFraudWithGeolocation

SpecGeo == InitGeo /\ [][NextGeo]_vars

(***************************************************************************)
(* Numbers of a numeric column: dyadic rationals n / d, d a power of two,  *)
(* in lowest terms. The floating-point operations of the code are exact on *)
(* them at the sizes used here.                                            *)
(***************************************************************************)
RECURSIVE Rat(_, _)
Rat(n, d) ==
    IF d > 1 /\ n % 2 = 0 THEN Rat(n \div 2, d \div 2)
    ELSE [n |-> n, d |-> d]

RatLt(a, b) == a.n * b.d < b.n * a.d

RatLeq(a, b) == a.n * b.d <= b.n * a.d

RatAdd(a, b) == Rat(a.n * b.d + b.n * a.d, a.d * b.d)

RatSub(a, b) == Rat(a.n * b.d - b.n * a.d, a.d * b.d)

\* a * num / den
RatScale(a, num, den) == Rat(a.n * num, a.d * den)

\* the non-null values of a column in ascending order
RECURSIVE SortedValues(_)
SortedValues(col) ==
    IF col = <<>> THEN <<>>
    ELSE LET rest == SortedValues(Tail(col))
             below == SelectSeq(rest, LAMBDA x : RatLt(x, col[1]))
             above == SelectSeq(rest, LAMBDA x : ~RatLt(x, col[1]))
         IN  IF col[1] = Null THEN rest
             ELSE below \o <<col[1]>> \o above

(***************************************************************************)
(* EDA.detect_outliers (data_exploration.py)                               *)
(***************************************************************************)
\* a + (b - a) * f / 4
Lerp(a, b, f) == RatAdd(a, RatScale(RatSub(b, a), f, 4))

\* the quantile of the lowest order statistic, without interpolation
quantile_lower(col, q4) ==
    IF SortedValues(col) = <<>> THEN Null
    ELSE SortedValues(col)[(q4 * (Len(SortedValues(col)) - 1)) \div 4 + 1]

\* Series.quantile(q4 / 4): nulls skipped, linear interpolation between the
\* order statistics around position q * (m - 1); NaN without values
quantile(col, q4) ==
    IF SortedValues(col) = <<>> THEN Null
    ELSE Lerp(SortedValues(col)[(q4 * (Len(SortedValues(col)) - 1)) \div 4 + 1],
              SortedValues(col)[IF (q4 * (Len(SortedValues(col)) - 1)) % 4 = 0
                                THEN (q4 * (Len(SortedValues(col)) - 1)) \div 4 + 1
                                ELSE (q4 * (Len(SortedValues(col)) - 1)) \div 4 + 2],
              (q4 * (Len(SortedValues(col)) - 1)) % 4)

\* lines 75-76 with a threshold of 0.5
lower_bound_half(q1, q3) ==
    IF q1 = Null THEN Null
    ELSE RatSub(q1, RatScale(RatSub(q3, q1), 1, 2))

\* lines 75-76: q1 - 1.5 * iqr
lower_bound(q1, q3) ==
    IF q1 = Null THEN Null
    ELSE RatSub(q1, RatScale(RatSub(q3, q1), 3, 2))

\* lines 75, 77: q3 + 1.5 * iqr
upper_bound(q1, q3) ==
    IF q1 = Null THEN Null
    ELSE RatAdd(q3, RatScale(RatSub(q3, q1), 3, 2))

\* x < y as pandas compares: false when either side is NaN
LtNaN(x, y) == x # Null /\ y # Null /\ RatLt(x, y)

\* np.where(col < bound, bound, col)
where_below(col, bound) ==
    [k \in 1..Len(col) |-> IF LtNaN(col[k], bound) THEN bound ELSE col[k]]

\* np.where(col > bound, bound, col) left out
where_above_skipped(col, bound) == col

\* np.where(col > bound, bound, col)
where_above(col, bound) ==
    [k \in 1..Len(col) |-> IF LtNaN(bound, col[k]) THEN bound ELSE col[k]]

\* line 78: the index of the rows outside the bounds
outlier_index(col, lo, hi) ==
    {k \in 1..Len(col) : LtNaN(col[k], lo) \/ LtNaN(hi, col[k])}

\* lines 88-89
iqr_cap(col, lo, hi) == where_above(where_below(col, lo), hi)

\* the values of a column, in row order
ColumnOf(t, c) == [k \in 1..Len(t.rows) |-> t.rows[k][c]]

\* data[column] = values
SetColumn(t, c, values) ==
    Table(t.cols \cup {c},
          [k \in 1..Len(t.rows) |-> WithColumn(t.rows[k], c, values[k])])

\* the table a call leaves behind (method "iqr"; the z-score branch needs
\* real arithmetic and is not part of the model)
detect_outliers_data(data, column, method, cap) ==
    IF method = "iqr" /\ column \in data.cols /\ cap
    THEN SetColumn(data, column,
             iqr_cap(ColumnOf(data, column),
                     lower_bound(quantile(ColumnOf(data, column), 1),
                                 quantile(ColumnOf(data, column), 3)),
                     upper_bound(quantile(ColumnOf(data, column), 1),
                                 quantile(ColumnOf(data, column), 3))))
    ELSE data

\* the value a call returns: the outlier index, or None after the KeyError
\* of a missing column or the UnboundLocalError of an unknown method
detect_outliers_ret(data, column, method) ==
    IF method = "iqr" /\ column \in data.cols
    THEN [index |->
             outlier_index(ColumnOf(data, column),
                 lower_bound(quantile(ColumnOf(data, column), 1),
                             quantile(ColumnOf(data, column), 3)),
                 upper_bound(quantile(ColumnOf(data, column), 1),
                             quantile(ColumnOf(data, column), 3)))]
    ELSE Null

(***************************************************************************)
(* Specification of detect_outliers                                        *)
(***************************************************************************)
\* the largest number of rows of a table given to detect_outliers
MaxRows == 5

\* the values of the column are drawn from 0 .. MaxVal and null
MaxVal == 1

\* the largest number of calls on one table
MaxCalls == 2

ValueSamples == {Null} \cup {Rat(v, 1) : v \in 0..MaxVal}

OutlierTables ==
    UNION {{Table({"id", "purchase_value"},
                  [k \in 1..n |-> [id |-> k, purchase_value |-> vals[k]]]) :
                vals \in [1..n -> ValueSamples]} : n \in 0..MaxRows}

InitIqr ==
    /\ md_fraud = Unused
    /\ md_ip = Unused
    /\ md_args = Unused
    /\ md_ret = Unused
    /\ md_err = Unused
    /\ ho_args = Unused
    /\ ho_trace = <<>>
    /\ ho_ret = Unused
    /\ cd_args = Unused
    /\ cd_trace = <<>>
    /\ cd_ret = Unused
    /\ enc_args = Unused
    /\ enc_ret = Unused
    /\ nm_scaler = Unused
    /\ nm_hist = <<>>
    /\ cl_args = Unused
    /\ cl_data = Unused
    /\ cl_ret = Unused
    /\ tx_args = Unused
    /\ tx_data = Unused
    /\ tx_err = Unused
    /\ tx_ret = Unused
    /\ ip_text = Unused
    /\ ip_ret = Unused
    /\ ip_cell = Unused
    /\ ip_key = Unused
    /\ geo_args = Unused
    /\ fraud_data = Unused
    /\ ip_data = Unused
    /\ geo_ret = Unused
    /\ geo_err = Unused
    /\ iqr_data \in OutlierTables
    /\ iqr_hist = <<>>
    /\ iqr_ret = Pending

\* one call detect_outliers(iqr_data, column, method, cap=cap)
DetectOutliers(column, method, cap) ==
    /\ Len(iqr_hist) < MaxCalls
    /\ iqr_data' = detect_outliers_data(iqr_data, column, method, cap)
    /\ iqr_ret' = detect_outliers_ret(iqr_data, column, method)
    /\ iqr_hist' = Append(iqr_hist, [data |-> iqr_data, column |-> column,
                                     method |-> method, cap |-> cap])
    /\ UNCHANGED <<ipVars, geoVars, txVars, clVars, nmVars, encVars, cdVars, hoVars, mdVars>>

NextIqr ==
    \E column \in {"purchase_value", "amount"}, method \in {"iqr", "mad"},
       cap \in BOOLEAN :
        DetectOutliers(column, method, cap)

SpecIqr == InitIqr /\ [][NextIqr]_vars

(***************************************************************************)
(* Times. A time is a number of seconds on the time line; a cell holds it  *)
(* as text (before pd.to_datetime) or as a Timestamp (after).              *)
(***************************************************************************)
\* the text of a time
TimeText(s) == [text |-> s]

\* a Timestamp
Timestamp(s) == [ts |-> s]

IsTimeText(v) == "text" \in DOMAIN v

IsTimestamp(v) == "ts" \in DOMAIN v

\* can pd.to_datetime convert the value: nulls (to NaT), Timestamps and texts
\* of a time, but no other string
Parsable(v) == v = Null \/ IsTimeText(v) \/ IsTimestamp(v)

\* pd.to_datetime of one parsable value
to_datetime(v) == IF IsTimeText(v) THEN Timestamp(v.text) ELSE v

\* the seconds of an hour
SecondsPerHour == 3600

\* the seconds of a day, 3600 * 24
SecondsPerDay == 86400

(***************************************************************************)
(* Fractions in lowest terms: the quotient of two integers                 *)
(***************************************************************************)
RECURSIVE GCD(_, _)
GCD(a, b) == IF b = 0 THEN a ELSE GCD(b, a % b)

\* n / d for n >= 0, d > 0
Frac(n, d) == [n |-> n \div GCD(n, d), d |-> d \div GCD(n, d)]

(***************************************************************************)
(* FeatureEngineer.create_transaction_features                             *)
(***************************************************************************)
\* the Timestamps of the rows whose value in column ucol is g, NaT left out
GroupTimes(t, ucol, tcol, g) ==
    {t.rows[k][tcol].ts : k \in {j \in 1..Len(t.rows) :
                                    /\ t.rows[j][ucol] = g
                                    /\ t.rows[j][tcol] # Null}}

\* transform('count'): the number of non-null values of tcol in the group
group_count(t, ucol, tcol, g) ==
    Cardinality({k \in 1..Len(t.rows) :
                    t.rows[k][ucol] = g /\ t.rows[k][tcol] # Null})

SetMax(S) == CHOOSE x \in S : \A y \in S : y <= x

SetMin(S) == CHOOSE x \in S : \A y \in S : x <= y

\* (x.max() - x.min()).days, without the + 1
group_days_unshifted(t, ucol, tcol, g) ==
    IF GroupTimes(t, ucol, tcol, g) = {} THEN Null
    ELSE Frac((SetMax(GroupTimes(t, ucol, tcol, g))
                  - SetMin(GroupTimes(t, ucol, tcol, g))) \div SecondsPerDay, 1)

\* line 55: (x.max() - x.min()).days + 1, a whole number held as a fraction;
\* NaN for a group without a time
group_days(t, ucol, tcol, g) ==
    IF GroupTimes(t, ucol, tcol, g) = {} THEN Null
    ELSE Frac((SetMax(GroupTimes(t, ucol, tcol, g))
                  - SetMin(GroupTimes(t, ucol, tcol, g))) \div SecondsPerDay + 1,
              1)

\* line 59: count / days; a division by zero gives inf (or NaN for 0 / 0)
velocity(count, days) ==
    IF days = Null THEN Null
    ELSE IF days.n = 0 THEN (IF count = 0 THEN Null ELSE Inf)
    ELSE Frac(count * days.d, days.n)

\* line 47: the time column converted in place
with_datetimes(t, tcol) ==
    Table(t.cols, [k \in 1..Len(t.rows) |->
                      WithColumn(t.rows[k], tcol, to_datetime(t.rows[k][tcol]))])

\* lines 50-59 for one row of the table with converted times
with_tx_features(t, ucol, tcol, r) ==
    [c \in DOMAIN r \cup {"transaction_count", "days_since_first_transaction",
                          "transaction_velocity"} |->
        CASE c = "transaction_count" -> group_count(t, ucol, tcol, r[ucol])
          [] c = "days_since_first_transaction" ->
                 group_days(t, ucol, tcol, r[ucol])
          [] c = "transaction_velocity" ->
                 velocity(group_count(t, ucol, tcol, r[ucol]),
                          group_days(t, ucol, tcol, r[ucol]))
          [] OTHER -> r[c]]

TxFeatureCols ==
    {"transaction_count", "days_since_first_transaction",
     "transaction_velocity"}

\* lines 50-62 on the table with converted times
tx_features(t, ucol, tcol) ==
    Table(t.cols \cup TxFeatureCols,
          [k \in 1..Len(t.rows) |-> with_tx_features(t, ucol, tcol, t.rows[k])])

\* the table the call returns (the caller's table, changed in place) and the
\* exception it caught
create_transaction_features(data, ucol, tcol) ==
    IF tcol \notin data.cols
    THEN [data |-> data, err |-> Raise("KeyError")]
    ELSE IF \E k \in 1..Len(data.rows) : ~Parsable(data.rows[k][tcol])
         THEN [data |-> data, err |-> Raise("ValueError")]
         ELSE IF ucol \notin data.cols
              THEN \* groupby fails after the time column was converted
                   [data |-> with_datetimes(data, tcol),
                    err |-> Raise("KeyError")]
              ELSE [data |-> tx_features(with_datetimes(data, tcol),
                                         ucol, tcol),
                    err |-> Null]

(***************************************************************************)
(* Specification of create_transaction_features                            *)
(***************************************************************************)
\* the largest number of rows of a transaction table
MaxTx == 3

\* the largest number of distinct users
MaxUsers == 2

\* seconds: the start, one second short of a day, a day, five days
TimeSamples == {0, SecondsPerDay - 1, SecondsPerDay, 5 * SecondsPerDay}

TimeCells ==
    {Null, Str(<<"a", "b", "c">>)} \cup {TimeText(h) : h \in TimeSamples}

\* the row with the identifier k of user u and with the time cell c
TxRow(k, u, c) == [id |-> k, user_id |-> u, purchase_time |-> c]

InitTx ==
    /\ md_fraud = Unused
    /\ md_ip = Unused
    /\ md_args = Unused
    /\ md_ret = Unused
    /\ md_err = Unused
    /\ ho_args = Unused
    /\ ho_trace = <<>>
    /\ ho_ret = Unused
    /\ cd_args = Unused
    /\ cd_trace = <<>>
    /\ cd_ret = Unused
    /\ enc_args = Unused
    /\ enc_ret = Unused
    /\ nm_scaler = Unused
    /\ nm_hist = <<>>
    /\ cl_args = Unused
    /\ cl_data = Unused
    /\ cl_ret = Unused
    /\ ip_text = Unused
    /\ ip_ret = Unused
    /\ ip_cell = Unused
    /\ ip_key = Unused
    /\ geo_args = Unused
    /\ fraud_data = Unused
    /\ ip_data = Unused
    /\ geo_ret = Unused
    /\ geo_err = Unused
    /\ iqr_data = Unused
    /\ iqr_hist = <<>>
    /\ iqr_ret = Unused
    /\ \E n \in 0..MaxTx :
           \E u \in [1..n -> 1..MaxUsers], c \in [1..n -> TimeCells] :
               tx_data = Table({"id", "user_id", "purchase_time"},
                               [k \in 1..n |-> TxRow(k, u[k], c[k])])
    /\ tx_args = Pending
    /\ tx_err = Null
    /\ tx_ret = Pending

\* one call create_transaction_features(tx_data, ucol, tcol)
CreateTransactionFeatures(ucol, tcol) ==
    /\ tx_args = Pending
    /\ tx_args' = [data |-> tx_data, user_id_column |-> ucol,
                   transaction_time_column |-> tcol]
    /\ tx_data' = create_transaction_features(tx_data, ucol, tcol).data
    /\ tx_err' = create_transaction_features(tx_data, ucol, tcol).err
    \* lines 62 and 66: return data
    /\ tx_ret' = create_transaction_features(tx_data, ucol, tcol).data
    /\ UNCHANGED <<ipVars, geoVars, iqrVars, clVars, nmVars, encVars, cdVars, hoVars, mdVars>>

NextTx ==
    \E ucol \in {"user_id", "device_id"},
       tcol \in {"purchase_time", "signup_time"} :
        CreateTransactionFeatures(ucol, tcol)

SpecTx == InitTx /\ [][NextTx]_vars

(***************************************************************************)
(* DataCleaner.create_features                                             *)
(***************************************************************************)
\* .dt.total_seconds() / 3600 of the timedelta of d seconds, in seconds
\* instead of hours
total_hours_unscaled(d) == Frac(d, 1)

\* line 166: .dt.total_seconds() / 3600 of the timedelta of d seconds
total_hours(d) == Frac(d, SecondsPerHour)

\* lines 164-166 for one row: NaT when either time is missing
time_since_signup(r) ==
    IF to_datetime(r.purchase_time) = Null \/ to_datetime(r.signup_time) = Null
    THEN Null
    ELSE total_hours(to_datetime(r.purchase_time).ts
                         - to_datetime(r.signup_time).ts)

\* line 170 for one value of Time: (Time % (3600 * 24)) // 3600
hour_of_day(time) ==
    IF time = Null THEN Null
    ELSE Frac((time.n % SecondsPerDay) \div SecondsPerHour, 1)

\* lines 163-167: the column time_since_signup, when both times are columns
with_time_since_signup(t) ==
    IF {"signup_time", "purchase_time"} \subseteq t.cols
    THEN Table(t.cols \cup {"time_since_signup"},
               [k \in 1..Len(t.rows) |->
                   WithColumn(t.rows[k], "time_since_signup",
                              time_since_signup(t.rows[k]))])
    ELSE t

\* lines 169-171: the column hour_of_day, when Time is a column
with_hour_of_day(t) ==
    IF "Time" \in t.cols
    THEN Table(t.cols \cup {"hour_of_day"},
               [k \in 1..Len(t.rows) |->
                   WithColumn(t.rows[k], "hour_of_day",
                              hour_of_day(t.rows[k]["Time"]))])
    ELSE t

\* does pd.to_datetime raise on one of the two time columns
UnparsableTime(t) ==
    /\ {"signup_time", "purchase_time"} \subseteq t.cols
    /\ \E k \in 1..Len(t.rows) :
           ~Parsable(t.rows[k].purchase_time) \/ ~Parsable(t.rows[k].signup_time)

\* the caller's table after the call and what the call returned; nothing
\* catches the exception of pd.to_datetime
create_features(data) ==
    IF UnparsableTime(data)
    THEN [data |-> data, ret |-> Raise("ValueError")]
    ELSE [data |-> with_hour_of_day(with_time_since_signup(data)),
          ret |-> with_hour_of_day(with_time_since_signup(data))]

(***************************************************************************)
(* Specification of create_features                                        *)
(***************************************************************************)
\* the largest number of rows of a table given to create_features
MaxClRows == 2

\* seconds: the start, an hour and a half
ClTimeSamples == {0, SecondsPerHour + SecondsPerHour \div 2}

ClTimeCells ==
    {Null, Str(<<"a", "b", "c">>)} \cup {TimeText(s) : s \in ClTimeSamples}

\* values of the column Time, in seconds: the last second of the first hour,
\* the third hour of the second day
ClSecondCells ==
    {Null, Frac(SecondsPerHour - 1, 1), Frac(SecondsPerDay + 2 * SecondsPerHour, 1)}

ClColumnSets ==
    {{"id", "signup_time", "purchase_time"},
     {"id", "signup_time", "purchase_time", "Time"},
     {"id", "purchase_time"},
     {"id", "Time"}}

\* the values of the time columns and of Time in one row
ClValues == ClTimeCells \X ClTimeCells \X ClSecondCells

\* the row with the columns cs, the identifier k and the values v
ClRow(cs, k, v) ==
    [c \in cs |-> CASE c = "signup_time" -> v[1]
                    [] c = "purchase_time" -> v[2]
                    [] c = "Time" -> v[3]
                    [] OTHER -> k]

InitCl ==
    /\ md_fraud = Unused
    /\ md_ip = Unused
    /\ md_args = Unused
    /\ md_ret = Unused
    /\ md_err = Unused
    /\ ho_args = Unused
    /\ ho_trace = <<>>
    /\ ho_ret = Unused
    /\ cd_args = Unused
    /\ cd_trace = <<>>
    /\ cd_ret = Unused
    /\ enc_args = Unused
    /\ enc_ret = Unused
    /\ nm_scaler = Unused
    /\ nm_hist = <<>>
    /\ ip_text = Unused
    /\ ip_ret = Unused
    /\ ip_cell = Unused
    /\ ip_key = Unused
    /\ geo_args = Unused
    /\ fraud_data = Unused
    /\ ip_data = Unused
    /\ geo_ret = Unused
    /\ geo_err = Unused
    /\ iqr_data = Unused
    /\ iqr_hist = <<>>
    /\ iqr_ret = Unused
    /\ tx_args = Unused
    /\ tx_data = Unused
    /\ tx_err = Unused
    /\ tx_ret = Unused
    /\ \E n \in 0..MaxClRows, cs \in ClColumnSets :
           \E f \in [1..n -> ClValues] :
               cl_data = Table(cs, [k \in 1..n |-> ClRow(cs, k, f[k])])
    /\ cl_args = Pending
    /\ cl_ret = Pending

\* one call create_features(cl_data)
CreateFeatures ==
    /\ cl_args = Pending
    /\ cl_args' = [data |-> cl_data]
    /\ cl_data' = create_features(cl_data).data
    /\ cl_ret' = create_features(cl_data).ret
    /\ UNCHANGED <<ipVars, geoVars, iqrVars, txVars, nmVars, encVars, cdVars, hoVars, mdVars>>

NextCl == CreateFeatures

SpecCl == InitCl /\ [][NextCl]_vars

(***************************************************************************)
(* Binary floating point: a float is kept as the fraction it stands for;   *)
(* every operation rounds its exact result to Precision significant bits,  *)
(* to nearest, ties to even (float64 has 53 bits)                          *)
(***************************************************************************)
\* the significant bits of a float of the model
Precision == 4

RECURSIVE Pow2(_)
Pow2(k) == IF k = 0 THEN 1 ELSE 2 * Pow2(k - 1)

\* the k with 2^k <= n / d < 2^(k + 1), for n > 0 and d > 0
RECURSIVE FloorLog2(_, _)
FloorLog2(n, d) ==
    IF n >= d THEN (IF n >= 2 * d THEN 1 + FloorLog2(n, 2 * d) ELSE 0)
    ELSE FloorLog2(2 * n, d) - 1

\* m / 1 rounded to an integer to nearest, ties to even, for the quotient
\* m and the remainder r of a division by d
RoundQuotient(m, r, d) ==
    IF 2 * r > d \/ (2 * r = d /\ m % 2 = 1) THEN m + 1 ELSE m

\* n / d rounded to a multiple of 2^s
RoundAt(n, d, s) ==
    IF s >= 0
    THEN Frac(RoundQuotient(n \div (d * Pow2(s)), n % (d * Pow2(s)),
                            d * Pow2(s)) * Pow2(s), 1)
    ELSE Frac(RoundQuotient((n * Pow2(-s)) \div d, (n * Pow2(-s)) % d, d),
              Pow2(-s))

\* the float nearest to n / d, d > 0
fl(n, d) ==
    IF n = 0 THEN Frac(0, 1)
    ELSE IF n > 0 THEN RoundAt(n, d, FloorLog2(n, d) - (Precision - 1))
    ELSE Frac(-RoundAt(-n, d, FloorLog2(-n, d) - (Precision - 1)).n,
              RoundAt(-n, d, FloorLog2(-n, d) - (Precision - 1)).d)

fadd(a, b) == fl(a.n * b.d + b.n * a.d, a.d * b.d)

fsub(a, b) == fl(a.n * b.d - b.n * a.d, a.d * b.d)

fmul(a, b) == fl(a.n * b.n, a.d * b.d)

\* a / b for b > 0
fdiv(a, b) == fl(a.n * b.d, a.d * b.n)

(***************************************************************************)
(* sklearn.preprocessing.MinMaxScaler as DataCleaner.normalize_columns     *)
(* uses it, on one column                                                  *)
(***************************************************************************)
\* MinMaxScaler() before any fit
Unfitted == [unfitted |-> TRUE]

\* the non-null values of a column, as floats
FloatsOf(col) ==
    {fl(col[k].n, col[k].d) : k \in {j \in 1..Len(col) : col[j] # Null}}

\* np.nanmin and np.nanmax of the column; NaN when all is NaN
nanmin(col) ==
    IF FloatsOf(col) = {} THEN Null
    ELSE CHOOSE x \in FloatsOf(col) : \A y \in FloatsOf(col) : RatLeq(x, y)

nanmax(col) ==
    IF FloatsOf(col) = {} THEN Null
    ELSE CHOOSE x \in FloatsOf(col) : \A y \in FloatsOf(col) : RatLeq(y, x)

\* _handle_zeros_in_scale: a zero range is replaced by 1
handle_zeros_in_scale(range) == IF range.n = 0 THEN Frac(1, 1) ELSE range

\* scale_ = (1 - 0) / _handle_zeros_in_scale(data_max - data_min)
scale_of(lo, hi) ==
    fdiv(Frac(1, 1), handle_zeros_in_scale(fsub(hi, lo)))

\* min_ = 0 - data_min * scale_
min_of(lo, hi) == fsub(Frac(0, 1), fmul(lo, scale_of(lo, hi)))

\* fit: the scaler forgets what it had and fits the column
fit(col) ==
    IF FloatsOf(col) = {}
    THEN [data_min_ |-> Null, data_max_ |-> Null, scale_ |-> Null,
          min_ |-> Null]
    ELSE [data_min_ |-> nanmin(col), data_max_ |-> nanmax(col),
          scale_ |-> scale_of(nanmin(col), nanmax(col)),
          min_ |-> min_of(nanmin(col), nanmax(col))]

\* transform of one value: X *= scale_; X += min_
transform_value(scaler, x) ==
    IF x = Null \/ scaler.scale_ = Null THEN Null
    ELSE fadd(fmul(fl(x.n, x.d), scaler.scale_), scaler.min_)

transform(scaler, col) ==
    [k \in 1..Len(col) |-> transform_value(scaler, col[k])]

\* fit_transform: fit on the column given, then transform it
fit_transform(col) == transform(fit(col), col)

(***************************************************************************)
(* Specification of normalize_columns on one DataCleaner                   *)
(***************************************************************************)
\* the largest number of rows of a batch
MaxBatchRows == 2

\* the largest number of batches one DataCleaner normalizes
MaxBatches == 2

NormSamples == {1, 4, 7}

NormCells == {Null} \cup {Frac(v, 1) : v \in NormSamples}

InitNm ==
    /\ md_fraud = Unused
    /\ md_ip = Unused
    /\ md_args = Unused
    /\ md_ret = Unused
    /\ md_err = Unused
    /\ ho_args = Unused
    /\ ho_trace = <<>>
    /\ ho_ret = Unused
    /\ cd_args = Unused
    /\ cd_trace = <<>>
    /\ cd_ret = Unused
    /\ enc_args = Unused
    /\ enc_ret = Unused
    /\ ip_text = Unused
    /\ ip_ret = Unused
    /\ ip_cell = Unused
    /\ ip_key = Unused
    /\ geo_args = Unused
    /\ fraud_data = Unused
    /\ ip_data = Unused
    /\ geo_ret = Unused
    /\ geo_err = Unused
    /\ iqr_data = Unused
    /\ iqr_hist = <<>>
    /\ iqr_ret = Unused
    /\ tx_args = Unused
    /\ tx_data = Unused
    /\ tx_err = Unused
    /\ tx_ret = Unused
    /\ cl_args = Unused
    /\ cl_data = Unused
    /\ cl_ret = Unused
    /\ nm_scaler = Unfitted
    /\ nm_hist = <<>>

\* one call normalize_columns(data, [column]) on a table whose column is col
NormalizeColumns(col) ==
    /\ Len(nm_hist) < MaxBatches
    /\ nm_scaler' = fit(col)
    /\ nm_hist' = Append(nm_hist, [before |-> col,
                                   after |-> fit_transform(col)])
    /\ UNCHANGED <<ipVars, geoVars, iqrVars, txVars, clVars, encVars, cdVars, hoVars, mdVars>>

NextNm ==
    /\ Len(nm_hist) < MaxBatches
    /\ \E n \in 1..MaxBatchRows : \E col \in [1..n -> NormCells] :
           NormalizeColumns(col)

SpecNm == InitNm /\ [][NextNm]_vars

(***************************************************************************)
(* EDA.detect_outliers (data_exploration.py) in floating point: the same   *)
(* steps as above with every operation rounded, for columns whose values   *)
(* are neighbouring floats                                                 *)
(***************************************************************************)
\* numpy's linear interpolation a + (b - a) * t, computed from b when
\* t >= 0.5; t is f / 4
lerp_float(a, b, f) ==
    IF f >= 2 THEN fsub(b, fmul(fsub(b, a), Frac(4 - f, 4)))
    ELSE fadd(a, fmul(fsub(b, a), Frac(f, 4)))

\* Series.quantile(q4 / 4) on floats
quantile_float(col, q4) ==
    IF SortedValues(col) = <<>> THEN Null
    ELSE lerp_float(
             SortedValues(col)[(q4 * (Len(SortedValues(col)) - 1)) \div 4 + 1],
             SortedValues(col)[IF (q4 * (Len(SortedValues(col)) - 1)) % 4 = 0
                               THEN (q4 * (Len(SortedValues(col)) - 1)) \div 4
                                        + 1
                               ELSE (q4 * (Len(SortedValues(col)) - 1)) \div 4
                                        + 2],
             (q4 * (Len(SortedValues(col)) - 1)) % 4)

\* lines 75-76: q1 - 1.5 * iqr
lower_bound_float(q1, q3) ==
    IF q1 = Null THEN Null
    ELSE fsub(q1, fmul(Frac(3, 2), fsub(q3, q1)))

\* lines 75, 77: q3 + 1.5 * iqr
upper_bound_float(q1, q3) ==
    IF q1 = Null THEN Null
    ELSE fadd(q3, fmul(Frac(3, 2), fsub(q3, q1)))

\* the table a call with method "iqr" leaves behind
detect_outliers_float_data(data, column, cap) ==
    IF cap
    THEN SetColumn(data, column,
             iqr_cap(ColumnOf(data, column),
                     lower_bound_float(quantile_float(ColumnOf(data, column), 1),
                                       quantile_float(ColumnOf(data, column), 3)),
                     upper_bound_float(quantile_float(ColumnOf(data, column), 1),
                                       quantile_float(ColumnOf(data, column), 3))))
    ELSE data

\* the outlier index a call with method "iqr" returns
detect_outliers_float_ret(data, column) ==
    [index |->
        outlier_index(ColumnOf(data, column),
            lower_bound_float(quantile_float(ColumnOf(data, column), 1),
                              quantile_float(ColumnOf(data, column), 3)),
            upper_bound_float(quantile_float(ColumnOf(data, column), 1),
                              quantile_float(ColumnOf(data, column), 3)))]

(***************************************************************************)
(* Specification of detect_outliers on neighbouring floats                 *)
(***************************************************************************)
\* the largest number of rows of a table of floats
MaxFloatRows == 3

\* neighbouring floats: the floats from 2^(Precision - 1) to 2^Precision are
\* the integers (8, 9, 10 with Precision = 4)
FloatSamples ==
    {Null} \cup {Frac(Pow2(Precision - 1) + i, 1) : i \in 0..2}

InitIqrFloat ==
    /\ md_fraud = Unused
    /\ md_ip = Unused
    /\ md_args = Unused
    /\ md_ret = Unused
    /\ md_err = Unused
    /\ ho_args = Unused
    /\ ho_trace = <<>>
    /\ ho_ret = Unused
    /\ ip_text = Unused
    /\ ip_ret = Unused
    /\ ip_cell = Unused
    /\ ip_key = Unused
    /\ geo_args = Unused
    /\ fraud_data = Unused
    /\ ip_data = Unused
    /\ geo_ret = Unused
    /\ geo_err = Unused
    /\ tx_args = Unused
    /\ tx_data = Unused
    /\ tx_err = Unused
    /\ tx_ret = Unused
    /\ cl_args = Unused
    /\ cl_data = Unused
    /\ cl_ret = Unused
    /\ nm_scaler = Unused
    /\ nm_hist = <<>>
    /\ enc_args = Unused
    /\ enc_ret = Unused
    /\ cd_args = Unused
    /\ cd_trace = <<>>
    /\ cd_ret = Unused
    /\ \E n \in 0..MaxFloatRows : \E vals \in [1..n -> FloatSamples] :
           iqr_data = Table({"id", "purchase_value"},
                            [k \in 1..n |->
                                [id |-> k, purchase_value |-> vals[k]]])
    /\ iqr_hist = <<>>
    /\ iqr_ret = Pending

\* one call detect_outliers(iqr_data, "purchase_value", cap=cap)
DetectOutliersFloat(cap) ==
    /\ iqr_hist = <<>>
    /\ iqr_data' = detect_outliers_float_data(iqr_data, "purchase_value", cap)
    /\ iqr_ret' = detect_outliers_float_ret(iqr_data, "purchase_value")
    /\ iqr_hist' = Append(iqr_hist,
                          [data |-> iqr_data, column |-> "purchase_value",
                           method |-> "iqr", cap |-> cap])
    /\ UNCHANGED <<ipVars, geoVars, txVars, clVars, nmVars, encVars, cdVars, hoVars, mdVars>>

NextIqrFloat == \E cap \in BOOLEAN : DetectOutliersFloat(cap)

SpecIqrFloat == InitIqrFloat /\ [][NextIqrFloat]_vars

(***************************************************************************)
(* DataCleaner.encode_categorical                                          *)
(***************************************************************************)
\* a value of an object column: a category, by its name
Cat(c) == [cat |-> c]

\* the category names in the order get_dummies sorts them
CatOrder == <<"a", "b", "c">>

CatRank(c) == CHOOSE i \in 1..Len(CatOrder) : CatOrder[i] = c

\* the distinct non-null values of a column
Categories(t, col) ==
    {t.rows[k][col].cat :
        k \in {j \in 1..Len(t.rows) : t.rows[j][col] # Null}}

\* line 147: data[col].nunique()
nunique(t, col) == Cardinality(Categories(t, col))

\* the categories that get an indicator column: all, or all but the first
DummyCats(t, col, drop_first) ==
    IF drop_first
    THEN {c \in Categories(t, col) :
             \E d \in Categories(t, col) : CatRank(d) < CatRank(c)}
    ELSE Categories(t, col)

\* the name get_dummies gives the indicator column of a category
dummy_name(col, c) == col \o "_" \o c

\* the row r with its value of col replaced by the indicators named in names
dummy_row(r, col, names) ==
    [x \in (DOMAIN r \ {col}) \cup names |->
        IF x \in DOMAIN r \ {col} THEN r[x]
        ELSE r[col] # Null /\ x = dummy_name(col, r[col].cat)]

\* line 150: pd.get_dummies(data, columns=[col], drop_first=drop_first)
get_dummies(t, col, drop_first) ==
    Table((t.cols \ {col})
              \cup {dummy_name(col, c) : c \in DummyCats(t, col, drop_first)},
          [k \in 1..Len(t.rows) |->
              dummy_row(t.rows[k], col,
                        {dummy_name(col, c) :
                            c \in DummyCats(t, col, drop_first)})])

\* the test of line 148 with < in the place of <=
within_threshold_strict(unique_values, cardinality_threshold) ==
    unique_values < cardinality_threshold

\* line 148: unique_values <= cardinality_threshold
within_threshold(unique_values, cardinality_threshold) ==
    unique_values <= cardinality_threshold

\* lines 146-152: the loop over the categorical columns, in their order
RECURSIVE encode_columns(_, _, _, _)
encode_columns(t, cols, drop_first, cardinality_threshold) ==
    IF cols = <<>> THEN t
    ELSE encode_columns(
             IF within_threshold(nunique(t, Head(cols)), cardinality_threshold)
             THEN get_dummies(t, Head(cols), drop_first)
             ELSE t,
             Tail(cols), drop_first, cardinality_threshold)

\* the table encode_categorical returns for a table whose object columns
\* are, in the order of the table, categorical_cols
encode_categorical(data, categorical_cols, drop_first, cardinality_threshold) ==
    encode_columns(data, categorical_cols, drop_first, cardinality_threshold)

(***************************************************************************)
(* Specification of encode_categorical                                     *)
(***************************************************************************)
\* the largest number of rows of a table given to encode_categorical
MaxEncRows == 3

\* the largest cardinality_threshold
MaxThreshold == 2

SourceCells == {Null, Cat("a"), Cat("b"), Cat("c")}

BrowserCells == {Null, Cat("a"), Cat("b")}

\* the orders in which a table can hold its two object columns
EncOrders == {<<"source", "browser">>, <<"browser", "source">>}

EncRow(k, v) == [id |-> k, source |-> v[1], browser |-> v[2]]

InitEnc ==
    /\ md_fraud = Unused
    /\ md_ip = Unused
    /\ md_args = Unused
    /\ md_ret = Unused
    /\ md_err = Unused
    /\ ho_args = Unused
    /\ ho_trace = <<>>
    /\ ho_ret = Unused
    /\ cd_args = Unused
    /\ cd_trace = <<>>
    /\ cd_ret = Unused
    /\ ip_text = Unused
    /\ ip_ret = Unused
    /\ ip_cell = Unused
    /\ ip_key = Unused
    /\ geo_args = Unused
    /\ fraud_data = Unused
    /\ ip_data = Unused
    /\ geo_ret = Unused
    /\ geo_err = Unused
    /\ iqr_data = Unused
    /\ iqr_hist = <<>>
    /\ iqr_ret = Unused
    /\ tx_args = Unused
    /\ tx_data = Unused
    /\ tx_err = Unused
    /\ tx_ret = Unused
    /\ cl_args = Unused
    /\ cl_data = Unused
    /\ cl_ret = Unused
    /\ nm_scaler = Unused
    /\ nm_hist = <<>>
    /\ enc_args = Pending
    /\ enc_ret = Pending

\* one call encode_categorical(data, drop_first, cardinality_threshold)
EncodeCategorical(data, order, drop_first, cardinality_threshold) ==
    /\ enc_args = Pending
    /\ enc_args' = [data |-> data, categorical_cols |-> order,
                    drop_first |-> drop_first,
                    cardinality_threshold |-> cardinality_threshold]
    /\ enc_ret' = encode_categorical(data, order, drop_first,
                                     cardinality_threshold)
    /\ UNCHANGED <<ipVars, geoVars, iqrVars, txVars, clVars, nmVars, cdVars, hoVars, mdVars>>

NextEnc ==
    /\ enc_args = Pending
    /\ \E n \in 0..MaxEncRows, order \in EncOrders, drop_first \in BOOLEAN,
          cardinality_threshold \in 1..MaxThreshold :
           \E f \in [1..n -> SourceCells \X BrowserCells] :
               EncodeCategorical(
                   Table({"id", "source", "browser"},
                         [k \in 1..n |-> EncRow(k, f[k])]),
                   order, drop_first, cardinality_threshold)

SpecEnc == InitEnc /\ [][NextEnc]_vars

(***************************************************************************)
(* DataCleaner.handle_outliers                                             *)
(***************************************************************************)
\* the table the bounds of a pair are computed from, were it the table
\* given to the call
bounds_basis_original(original, current) == original

\* lines 103-104: the quartiles are taken from df as it is when the pair is
\* reached
bounds_basis(original, current) == current

\* lines 105-106: Q1 - threshold * IQR
ho_lower_bound(q1, q3, threshold) ==
    IF q1 = Null THEN Null
    ELSE RatSub(q1, RatScale(RatSub(q3, q1), threshold.n, threshold.d))

\* lines 105, 107: Q3 + threshold * IQR
ho_upper_bound(q1, q3, threshold) ==
    IF q1 = Null THEN Null
    ELSE RatAdd(q3, RatScale(RatSub(q3, q1), threshold.n, threshold.d))

\* x >= lo and x <= hi as pandas compares: false when a side is NaN
GeqLeqNaN(x, lo, hi) ==
    /\ x # Null
    /\ lo # Null
    /\ hi # Null
    /\ RatLeq(lo, x)
    /\ RatLeq(x, hi)

\* line 108: the rows of df whose value of col is within the bounds
iqr_filter(df, col, lo, hi) ==
    Table(df.cols, SelectSeq(df.rows, LAMBDA r : GeqLeqNaN(r[col], lo, hi)))

\* lines 103-108 with the quartiles q1 and q3
iqr_remove(df, col, q1, q3, threshold) ==
    iqr_filter(df, col, ho_lower_bound(q1, q3, threshold),
               ho_upper_bound(q1, q3, threshold))

\* lines 102-116 for one pair; a method that is none of the three named
\* ones changes nothing
handle_pair(original, df, pair, threshold) ==
    IF pair[2] = "iqr"
    THEN iqr_remove(df, pair[1],
             quantile(ColumnOf(bounds_basis(original, df), pair[1]), 1),
             quantile(ColumnOf(bounds_basis(original, df), pair[1]), 3),
             threshold)
    ELSE df

\* the tables after the pairs that follow a pair, behind the table after
\* that pair
RECURSIVE handle_pairs(_, _, _, _)
following_pairs(original, after, column_method, threshold) ==
    <<after>> \o handle_pairs(original, after, Tail(column_method), threshold)

\* lines 101-116: the table after each pair
handle_pairs(original, df, column_method, threshold) ==
    IF column_method = <<>> THEN <<>>
    ELSE following_pairs(original,
                         handle_pair(original, df, Head(column_method),
                                     threshold),
                         column_method, threshold)

\* line 118: the table after the last pair
handle_outliers(df, trace) == IF trace = <<>> THEN df ELSE trace[Len(trace)]

(***************************************************************************)
(* Specification of handle_outliers                                        *)
(***************************************************************************)
\* the largest number of rows of a table given to handle_outliers
MaxOutlierRows == 4

\* the largest number of pairs in column_method
MaxPairs == 2

\* the pairs: a method that is not handled stands for "no change"
OutlierPairs ==
    {<<"purchase_value", "iqr">>, <<"age", "iqr">>,
     <<"purchase_value", "cap">>}

\* the thresholds: the default 1.5 and 0.5
Thresholds == {Rat(3, 2), Rat(1, 2)}

OutlierRow(k, v) == [id |-> k, purchase_value |-> v[1], age |-> v[2]]

InitHo ==
    /\ md_fraud = Unused
    /\ md_ip = Unused
    /\ md_args = Unused
    /\ md_ret = Unused
    /\ md_err = Unused
    /\ ip_text = Unused
    /\ ip_ret = Unused
    /\ ip_cell = Unused
    /\ ip_key = Unused
    /\ geo_args = Unused
    /\ fraud_data = Unused
    /\ ip_data = Unused
    /\ geo_ret = Unused
    /\ geo_err = Unused
    /\ iqr_data = Unused
    /\ iqr_hist = <<>>
    /\ iqr_ret = Unused
    /\ tx_args = Unused
    /\ tx_data = Unused
    /\ tx_err = Unused
    /\ tx_ret = Unused
    /\ cl_args = Unused
    /\ cl_data = Unused
    /\ cl_ret = Unused
    /\ nm_scaler = Unused
    /\ nm_hist = <<>>
    /\ enc_args = Unused
    /\ enc_ret = Unused
    /\ cd_args = Unused
    /\ cd_trace = <<>>
    /\ cd_ret = Unused
    /\ ho_args = Pending
    /\ ho_trace = <<>>
    /\ ho_ret = Pending

\* one call handle_outliers(df, column_method, threshold)
HandleOutliers(df, column_method, threshold) ==
    /\ ho_args = Pending
    /\ ho_args' = [df |-> df, column_method |-> column_method,
                   threshold |-> threshold]
    /\ ho_trace' = handle_pairs(df, df, column_method, threshold)
    /\ ho_ret' = handle_outliers(df, ho_trace')
    /\ UNCHANGED <<ipVars, geoVars, iqrVars, txVars, clVars, nmVars, encVars, cdVars, mdVars>>

NextHo ==
    /\ ho_args = Pending
    /\ \E n \in 0..MaxOutlierRows, m \in 0..MaxPairs, threshold \in Thresholds :
           \E f \in [1..n -> ValueSamples \X {Rat(0, 1), Rat(1, 1)}],
              column_method \in [1..m -> OutlierPairs] :
               HandleOutliers(Table({"id", "purchase_value", "age"},
                                    [k \in 1..n |-> OutlierRow(k, f[k])]),
                              column_method, threshold)

SpecHo == InitHo /\ [][NextHo]_vars

(***************************************************************************)
(* DataCleaner.clean_data                                                  *)
(***************************************************************************)
\* line 91: the parameters of handle_outliers besides self
HandleOutliersParams == <<"df", "column_method", "threshold">>

\* Python's binding of a call with one positional argument and the keyword
\* arguments kwargs to the parameters params: a keyword that is no
\* parameter is a TypeError
bind_call(params, kwargs) ==
    IF \E kw \in kwargs : \A i \in 1..Len(params) : params[i] # kw
    THEN Raise("TypeError")
    ELSE Null

\* line 132: the default cardinality_threshold
DefaultThreshold == 50

\* the table with column col normalized (line 190)
normalized(t, col) ==
    Table(t.cols,
          [k \in 1..Len(t.rows) |->
              WithColumn(t.rows[k], col,
                         fit_transform([j \in 1..Len(t.rows) |->
                                           t.rows[j][col]])[k])])

\* the stages that ran and what the caller gets
CleanOutcome(trace, ret) == [trace |-> trace, ret |-> ret]

\* lines 187-192, for a table with the numeric column purchase_value and the
\* object column source, and normalize_columns = [purchase_value]
clean_data(data, outlier_columns, normalize_columns) ==
    IF /\ outlier_columns # <<>>
       /\ bind_call(HandleOutliersParams, {"column", "method"}) # Null
    THEN \* line 188: handle_outliers(data, column=col, method="cap")
         CleanOutcome(<<>>, bind_call(HandleOutliersParams,
                                      {"column", "method"}))
    ELSE CleanOutcome(
             [i \in 1..Len(outlier_columns) |-> "handle_outliers"]
                 \o <<"normalize_columns", "encode_categorical">>,
             encode_categorical(normalized(data, normalize_columns[1]),
                                <<"source">>, TRUE, DefaultThreshold))

(***************************************************************************)
(* Specification of clean_data                                             *)
(***************************************************************************)
\* the largest number of rows of a table given to clean_data
MaxCleanRows == 2

\* the largest number of columns in outlier_columns
MaxOutlierCols == 2

CleanRow(k, v) == [id |-> k, purchase_value |-> v[1], source |-> v[2]]

InitCd ==
    /\ md_fraud = Unused
    /\ md_ip = Unused
    /\ md_args = Unused
    /\ md_ret = Unused
    /\ md_err = Unused
    /\ ho_args = Unused
    /\ ho_trace = <<>>
    /\ ho_ret = Unused
    /\ ip_text = Unused
    /\ ip_ret = Unused
    /\ ip_cell = Unused
    /\ ip_key = Unused
    /\ geo_args = Unused
    /\ fraud_data = Unused
    /\ ip_data = Unused
    /\ geo_ret = Unused
    /\ geo_err = Unused
    /\ iqr_data = Unused
    /\ iqr_hist = <<>>
    /\ iqr_ret = Unused
    /\ tx_args = Unused
    /\ tx_data = Unused
    /\ tx_err = Unused
    /\ tx_ret = Unused
    /\ cl_args = Unused
    /\ cl_data = Unused
    /\ cl_ret = Unused
    /\ nm_scaler = Unused
    /\ nm_hist = <<>>
    /\ enc_args = Unused
    /\ enc_ret = Unused
    /\ cd_args = Pending
    /\ cd_trace = <<>>
    /\ cd_ret = Pending

\* one call clean_data(data, outlier_columns, normalize_columns)
CleanData(data, outlier_columns, normalize_columns) ==
    /\ cd_args = Pending
    /\ cd_args' = [data |-> data, outlier_columns |-> outlier_columns,
                   normalize_columns |-> normalize_columns]
    /\ cd_trace' = clean_data(data, outlier_columns, normalize_columns).trace
    /\ cd_ret' = clean_data(data, outlier_columns, normalize_columns).ret
    /\ UNCHANGED <<ipVars, geoVars, iqrVars, txVars, clVars, nmVars, encVars, hoVars, mdVars>>

NextCd ==
    /\ cd_args = Pending
    /\ \E n \in 1..MaxCleanRows, m \in 0..MaxOutlierCols :
           \E f \in [1..n -> NormCells \X BrowserCells] :
               CleanData(Table({"id", "purchase_value", "source"},
                               [k \in 1..n |-> CleanRow(k, f[k])]),
                         [i \in 1..m |-> "purchase_value"],
                         <<"purchase_value">>)

SpecCd == InitCd /\ [][NextCd]_vars

(***************************************************************************)
(* DataMerger.merge_datasets                                               *)
(***************************************************************************)
\* int(v) of one value of a numeric column: a float loses its fractional
\* part, an integer stays
astype_int(v) == IF "mag" \in DOMAIN v THEN v.mag ELSE v

\* can column c of the table be converted by astype(int): not when a value
\* is NaN
can_astype_int(t, c) == \A k \in 1..Len(t.rows) : IntCastable(t.rows[k][c])

\* t[c] = t[c].astype(int)
column_astype_int(t, c) ==
    Table(t.cols,
          [k \in 1..Len(t.rows) |->
              WithColumn(t.rows[k], c, astype_int(t.rows[k][c]))])

\* lines 55-61: the asof merge of the two sorted copies; every row of the
\* left table is kept with all columns of both tables
asof_merged(fd, ipd) ==
    Table(fd.cols \cup ipd.cols,
          merge_asof(sort_values(fd.rows, "ip_address"),
                     sort_values(ipd.rows, "lower_bound_ip_address"),
                     "ip_address", "lower_bound_ip_address", ipd.cols))

\* lines 49-64; an exception of astype leaves the call, after the
\* assignments made before it
merge_datasets(fd, ipd) ==
    IF ~can_astype_int(fd, "ip_address")
    THEN Outcome(Null, fd, ipd, "ValueError")
    ELSE IF ~can_astype_int(ipd, "lower_bound_ip_address")
         THEN Outcome(Null, column_astype_int(fd, "ip_address"), ipd,
                      "ValueError")
         ELSE IF ~can_astype_int(ipd, "upper_bound_ip_address")
              THEN Outcome(Null, column_astype_int(fd, "ip_address"),
                           column_astype_int(ipd, "lower_bound_ip_address"),
                           "ValueError")
              ELSE Outcome(asof_merged(
                               column_astype_int(fd, "ip_address"),
                               column_astype_int(ipd,
                                                 "lower_bound_ip_address")),
                           column_astype_int(fd, "ip_address"),
                           column_astype_int(ipd, "lower_bound_ip_address"),
                           "")

(***************************************************************************)
(* Specification of merge_datasets                                         *)
(***************************************************************************)
\* the values of the ip_address column: NaN, whole numbers and numbers with
\* a fractional part
MergeCells ==
    {Null} \cup {Num(FALSE, KeyOf(k), f) : k \in 0..MaxKey, f \in BOOLEAN}

\* the values of a bound column
BoundCells == {Null} \cup {KeyOf(k) : k \in 0..MaxKey}

\* a reference table of one row with a missing bound
NullBoundTables ==
    {Table(BoundCols \cup {"country"},
           <<[lower_bound_ip_address |-> lo,
              upper_bound_ip_address |-> up,
              country |-> PayloadOf(1)]>>) :
        lo \in BoundCells, up \in {Null}}
      \cup
    {Table(BoundCols \cup {"country"},
           <<[lower_bound_ip_address |-> Null,
              upper_bound_ip_address |-> up,
              country |-> PayloadOf(1)]>>) :
        up \in BoundCells}

MergeRow(k, cell) == [id |-> k, ip_address |-> cell]

InitMd ==
    /\ ho_args = Unused
    /\ ho_trace = <<>>
    /\ ho_ret = Unused
    /\ cd_args = Unused
    /\ cd_trace = <<>>
    /\ cd_ret = Unused
    /\ enc_args = Unused
    /\ enc_ret = Unused
    /\ nm_scaler = Unused
    /\ nm_hist = <<>>
    /\ cl_args = Unused
    /\ cl_data = Unused
    /\ cl_ret = Unused
    /\ tx_args = Unused
    /\ tx_data = Unused
    /\ tx_err = Unused
    /\ tx_ret = Unused
    /\ iqr_data = Unused
    /\ iqr_hist = <<>>
    /\ iqr_ret = Unused
    /\ ip_text = Unused
    /\ ip_ret = Unused
    /\ ip_cell = Unused
    /\ ip_key = Unused
    /\ geo_args = Unused
    /\ fraud_data = Unused
    /\ ip_data = Unused
    /\ geo_ret = Unused
    /\ geo_err = Unused
    /\ \E n \in 0..MaxRecs :
          \E cells \in [1..n -> MergeCells] :
              md_fraud = Table({"id", "ip_address"},
                               [k \in 1..n |-> MergeRow(k, cells[k])])
    /\ md_ip \in IpTables \cup NullBoundTables
    /\ md_args = [fraud |-> md_fraud, ip |-> md_ip]
    /\ md_ret = Pending
    /\ md_err = Null

\* one call merge_datasets(md_fraud, md_ip)
MergeDatasets ==
    /\ md_ret = Pending
    /\ LET out == merge_datasets(md_fraud, md_ip)
       IN  /\ md_ret' = out.ret
           /\ md_fraud' = out.fraud
           /\ md_ip' = out.ip
           /\ md_err' = IF out.err = "" THEN Null ELSE Raise(out.err)
    /\ UNCHANGED <<md_args, ipVars, geoVars, iqrVars, txVars, clVars, nmVars, encVars, cdVars, hoVars>>

NextMd == MergeDatasets

SpecMd == InitMd /\ [][NextMd]_vars

(***************************************************************************)
(* Properties of ip_to_int                                                 *)
(***************************************************************************)
\* the text before the first white-space character
RECURSIVE BeforeSpace(_)
BeforeSpace(s) ==
    IF Len(s) = 0 \/ s[1] \in Spaces THEN <<>>
    ELSE <<s[1]>> \o BeforeSpace(Tail(s))

\* the dot-separated parts of a text
RECURSIVE SplitDots(_)
SplitDots(s) ==
    IF \E k \in 1..Len(s) : s[k] = "."
    THEN LET k == CHOOSE k \in 1..Len(s) :
                      s[k] = "." /\ \A j \in 1..(k - 1) : s[j] # "."
         IN  <<SubSeq(s, 1, k - 1)>> \o SplitDots(SubSeq(s, k + 1, Len(s)))
    ELSE <<s>>

\* a non-empty run of decimal digits
IsDigits(tok) ==
    /\ Len(tok) > 0
    /\ \A k \in 1..Len(tok) : tok[k] \in DecDigits

\* a decimal numeral as str() writes it: digits without a leading zero
IsPlainDecimal(tok) ==
    /\ IsDigits(tok)
    /\ Len(tok) > 1 => tok[1] # "0"

\* the value of a run of decimal digits
DecValue(tok) == ScanDigits(tok, 1, 10, U32(0, 0)).val

\* four parts, each one to three decimal digits with a value in 0..255
IsDottedQuadText(s) ==
    LET toks == SplitDots(s)
    IN  /\ Len(toks) = 4
        /\ \A k \in 1..4 :
              /\ IsDigits(toks[k])
              /\ Len(toks[k]) <= 3
              /\ LeqU32(DecValue(toks[k]), U32(0, MaxOctet))

\* the largest last part of a text of n parts: what the n - 1 earlier octets
\* leave of the 32 bits
WidthLeft(n) ==
    CASE n = 1 -> U32(65535, 65535)
      [] n = 2 -> U32(255, 65535)
      [] n = 3 -> U32(0, 65535)
      [] n = 4 -> U32(0, 255)

IpCalled == ip_text # Unused /\ ip_ret # Pending

CellConverted == ip_cell # Unused /\ ip_key # Pending

\* C4: for every dotted quad "a.b.c.d" with octets in 0..255 ip_to_int
\* returns a*2^24 + b*2^16 + c*2^8 + d (here as the two halves a*2^8 + b and
\* c*2^8 + d), from which the four octets can be read back, so distinct
\* addresses get distinct integers; "0.0.0.1" gives 1 and "255.255.255.255"
\* gives 4294967295.
C4_DottedQuadValue ==
    IpCalled =>
        /\ \A a, b, c, d \in OctetSamples :
              ip_text = Str(DottedQuad(a, b, c, d)) =>
                  /\ ip_ret = U32(a * 256 + b, c * 256 + d)
                  /\ <<ip_ret.hi \div 256, ip_ret.hi % 256,
                       ip_ret.lo \div 256, ip_ret.lo % 256>> = <<a, b, c, d>>
        /\ ip_text = Str(<<"0", ".", "0", ".", "0", ".", "1">>)
              => ip_ret = U32(0, 1)
        /\ ip_text = Str(DottedQuad(255, 255, 255, 255))
              => ip_ret = U32(Half - 1, Half - 1)

C4_Witness ==
    /\ ip_text = Str(DottedQuad(1, 0, 255, 1))
    /\ ip_ret = U32(256, 65281)

\* C5 as stated: every text that is not four decimal octets in 0..255 gives
\* None, and a missing value gives the None key.
C5_NotQuadIsNone ==
    /\ (IpCalled /\ ~IsDottedQuadText(ip_text.chars)) => ip_ret = Null
    /\ (CellConverted /\ ip_cell = Null) => ip_key = Null

\* C5 amended: ip_to_int gives None for a text with more than four parts,
\* with a part that does not begin with a decimal digit (empty or
\* non-numeric), with a decimal part above 255 before the last part, or with
\* a decimal last part above the width left to it (255, 65535, 16777215,
\* 4294967295 for four, three, two, one parts); a text of one to four plain
\* decimal parts within these limits gives an integer, so "1.2.3" and a bare
\* number are accepted. The empty text gives None and a missing value gives
\* the None key.
C5_MalformedIsNone ==
    /\ IpCalled =>
          LET toks == SplitDots(BeforeSpace(ip_text.chars))
              n == Len(toks)
              inLimits ==
                  /\ n <= 4
                  /\ \A k \in 1..n : IsPlainDecimal(toks[k])
                  /\ \A k \in 1..(n - 1) :
                        LeqU32(DecValue(toks[k]), U32(0, MaxOctet))
                  /\ LeqU32(DecValue(toks[n]), WidthLeft(n))
          IN  /\ n > 4 => ip_ret = Null
              /\ (\E k \in 1..n :
                      toks[k] = <<>> \/ toks[k][1] \notin DecDigits)
                    => ip_ret = Null
              /\ (n <= 4 /\ (\A k \in 1..n : IsPlainDecimal(toks[k])) /\ ~inLimits)
                    => ip_ret = Null
              /\ inLimits => ip_ret \notin {Null, Raise("TypeError")}
              /\ ip_text.chars = <<>> => ip_ret = Null
    /\ (CellConverted /\ ip_cell = Null) => ip_key = Null

C5_Witness ==
    /\ ip_text = Str(<<"9", "9", "9", ".", "1", ".", "1", ".", "1">>)
    /\ ip_ret = Null

(***************************************************************************)
(* Properties of merge_fraud_with_geolocation                              *)
(***************************************************************************)
GeoCalled == geo_args # Unused /\ geo_ret # Pending

\* the interval [lower, upper] of a reference row contains k
Contains(iv, k) ==
    /\ LeqU32(iv.lower_bound_ip_address, k)
    /\ LeqU32(k, iv.upper_bound_ip_address)

\* a valid reference set: lower <= upper in every row, and no address in two
\* rows
NonOverlapping(rows) ==
    /\ \A j \in 1..Len(rows) :
          LeqU32(rows[j].lower_bound_ip_address, rows[j].upper_bound_ip_address)
    /\ \A i, j \in 1..Len(rows) :
          i # j => ~(/\ LeqU32(rows[i].lower_bound_ip_address,
                               rows[j].upper_bound_ip_address)
                     /\ LeqU32(rows[j].lower_bound_ip_address,
                               rows[i].upper_bound_ip_address))

\* the value is a whole number in 0 .. 2^32 - 1
IsIntegerKey(c) ==
    /\ "mag" \in DOMAIN c
    /\ ~c.neg
    /\ ~c.frac
    /\ c.mag # TooBig

\* the indices of the intervals of the call that contain k
Hits(k) ==
    {j \in 1..Len(geo_args.ip.rows) : Contains(geo_args.ip.rows[j], k)}

\* the rows of the returned table that come from record id
RetRowsOf(id) == {k \in 1..Len(geo_ret.rows) : geo_ret.rows[k].id = id}

\* record id is in the returned table once, with the payload p
JoinedWith(id, p) ==
    /\ Cardinality(RetRowsOf(id)) = 1
    /\ \A k \in RetRowsOf(id) :
          /\ "country" \in DOMAIN geo_ret.rows[k]
          /\ geo_ret.rows[k].country = p

\* C1: with non-overlapping intervals in any order and integer keys, the
\* range join gives the record with key k the payload of the one interval
\* with lower <= k <= upper, boundaries included, and leaves a record whose
\* key is in no interval unmatched (it is not in the joined table).
C1_RangeJoinLookup ==
    (/\ GeoCalled
     /\ NonOverlapping(geo_args.ip.rows)
     /\ Len(geo_args.fraud.rows) > 0
     /\ \A k \in 1..Len(geo_args.fraud.rows) :
           IsIntegerKey(geo_args.fraud.rows[k].ip_address))
    => /\ geo_err = Null
       /\ \A k \in 1..Len(geo_args.fraud.rows) :
             LET r == geo_args.fraud.rows[k]
                 hits == Hits(r.ip_address.mag)
             IN  /\ Cardinality(hits) <= 1
                 /\ hits = {} => RetRowsOf(r.id) = {}
                 /\ \A j \in hits :
                       JoinedWith(r.id, geo_args.ip.rows[j].country)

\* intervals given out of order, one key on an upper bound and one on the
\* lower bound of the next interval
C1_Witness ==
    /\ GeoCalled
    /\ Len(geo_args.ip.rows) = 2
    /\ geo_args.ip.rows[1].lower_bound_ip_address = KeyOf(2)
    /\ geo_args.ip.rows[1].upper_bound_ip_address = KeyOf(3)
    /\ geo_args.ip.rows[2].lower_bound_ip_address = KeyOf(0)
    /\ geo_args.ip.rows[2].upper_bound_ip_address = KeyOf(1)
    /\ Len(geo_args.fraud.rows) = 2
    /\ geo_args.fraud.rows[1].ip_address = Num(FALSE, KeyOf(2), FALSE)
    /\ geo_args.fraud.rows[2].ip_address = Num(FALSE, KeyOf(1), FALSE)
    /\ JoinedWith(1, "A")
    /\ JoinedWith(2, "B")

\* the key of a record as the claims speak of it: None when the value is
\* absent or does not convert
ClaimKey(c) ==
    LET k == ip_int_of(c)
    IN  IF IsRaise(k) THEN Null ELSE k

\* the records of the call whose key is present, parsable and inside an
\* interval
MatchedRecords ==
    {k \in 1..Len(geo_args.fraud.rows) :
        LET key == ClaimKey(geo_args.fraud.rows[k].ip_address)
        IN  key # Null /\ Hits(key) # {}}

\* C2 as stated: over a valid reference set the returned table holds exactly
\* the records whose key is present, parsable and inside an interval, each
\* once and with its payload; every other record is dropped.
C2_OutputExactlyMatched ==
    (GeoCalled /\ NonOverlapping(geo_args.ip.rows)) =>
        /\ Len(geo_ret.rows) = Cardinality(MatchedRecords)
        /\ \A k \in 1..Len(geo_args.fraud.rows) :
              LET r == geo_args.fraud.rows[k]
              IN  IF k \in MatchedRecords
                  THEN \A j \in Hits(ClaimKey(r.ip_address)) :
                          JoinedWith(r.id, geo_args.ip.rows[j].country)
                  ELSE RetRowsOf(r.id) = {}

\* the value is a string that is no address
IsMalformedText(c) == IsStr(c) /\ ip_to_int(c) = Null

\* C3 as stated: when one record holds a malformed address string, the call
\* does not raise, that record is not in the returned table, and the other
\* records are joined as usual.
C3_MalformedRecordDropped ==
    GeoCalled =>
        \A k \in 1..Len(geo_args.fraud.rows) :
            (/\ IsMalformedText(geo_args.fraud.rows[k].ip_address)
             /\ \A j \in 1..Len(geo_args.fraud.rows) :
                   j # k => IsIntegerKey(geo_args.fraud.rows[j].ip_address)
             /\ NonOverlapping(geo_args.ip.rows))
            => /\ RetRowsOf(geo_args.fraud.rows[k].id) = {}
               /\ \A j \in 1..Len(geo_args.fraud.rows) :
                     j # k =>
                        \A h \in Hits(geo_args.fraud.rows[j].ip_address.mag) :
                            JoinedWith(geo_args.fraud.rows[j].id,
                                       geo_args.ip.rows[h].country)

(***************************************************************************)
(* Properties of detect_outliers                                           *)
(***************************************************************************)
\* call number k on the table was an IQR capping of purchase_value
IsIqrCap(k) ==
    /\ k \in 1..Len(iqr_hist)
    /\ iqr_hist[k].method = "iqr"
    /\ iqr_hist[k].cap
    /\ iqr_hist[k].column = "purchase_value"

\* the column purchase_value before call number k
ColumnBefore(k) == ColumnOf(iqr_hist[k].data, "purchase_value")

\* the column purchase_value as it is now
ColumnNow == ColumnOf(iqr_data, "purchase_value")

\* Q1 - 1.5 * (Q3 - Q1) of a column that has values
CapLower(col) ==
    RatSub(quantile(col, 1),
           RatScale(RatSub(quantile(col, 3), quantile(col, 1)), 3, 2))

\* Q3 + 1.5 * (Q3 - Q1) of a column that has values
CapUpper(col) ==
    RatAdd(quantile(col, 3),
           RatScale(RatSub(quantile(col, 3), quantile(col, 1)), 3, 2))

HasValues(col) == \E k \in 1..Len(col) : col[k] # Null

\* C7: after an IQR capping, with the bounds [Q1 - 1.5 IQR, Q3 + 1.5 IQR] of
\* the column before the call, every value below the lower bound is the
\* lower bound, every value above the upper bound is the upper bound, every
\* value inside the bounds (and every null) is as before, and the rows and
\* the other columns are as before.
C7_CappedToBounds ==
    IsIqrCap(Len(iqr_hist)) =>
        LET before == iqr_hist[Len(iqr_hist)].data
            old == ColumnBefore(Len(iqr_hist))
        IN  /\ Len(iqr_data.rows) = Len(before.rows)
            /\ iqr_data.cols = before.cols
            /\ \A k \in 1..Len(before.rows) :
                  /\ iqr_data.rows[k].id = before.rows[k].id
                  /\ old[k] = Null => ColumnNow[k] = Null
                  /\ old[k] # Null =>
                        /\ RatLt(old[k], CapLower(old))
                              => ColumnNow[k] = CapLower(old)
                        /\ RatLt(CapUpper(old), old[k])
                              => ColumnNow[k] = CapUpper(old)
                        /\ (/\ RatLeq(CapLower(old), old[k])
                            /\ RatLeq(old[k], CapUpper(old)))
                              => ColumnNow[k] = old[k]

\* the column <<0, 0, 0, 1>> capped to <<0, 0, 0, 5/8>>
C7_Witness ==
    /\ IsIqrCap(1)
    /\ Len(iqr_hist) = 1
    /\ ColumnBefore(1) = <<Rat(0, 1), Rat(0, 1), Rat(0, 1), Rat(1, 1)>>
    /\ ColumnNow = <<Rat(0, 1), Rat(0, 1), Rat(0, 1), Rat(5, 8)>>

\* the last two calls were IQR cappings of purchase_value
CappedTwice ==
    /\ Len(iqr_hist) >= 2
    /\ IsIqrCap(Len(iqr_hist) - 1)
    /\ IsIqrCap(Len(iqr_hist))

\* C6 as stated: a second IQR capping, with its bounds recomputed from the
\* capped column, changes no value.
C6_CapIdempotent ==
    CappedTwice => ColumnNow = ColumnBefore(Len(iqr_hist))

\* the sorted positions that Q1 and Q3 of m values are interpolated from
QuartileRanks(m) ==
    {(q4 * (m - 1)) \div 4 + 1 : q4 \in {1, 3}}
        \cup {(q4 * (m - 1)) \div 4 + 2 :
                 q4 \in {q \in {1, 3} : (q * (m - 1)) % 4 # 0}}

\* no value that Q1 or Q3 is interpolated from is outside the bounds
RanksInside(col) ==
    \A i \in QuartileRanks(Len(SortedValues(col))) :
        HasValues(col) =>
            /\ RatLeq(CapLower(col), SortedValues(col)[i])
            /\ RatLeq(SortedValues(col)[i], CapUpper(col))

\* C6 amended: a second IQR capping changes no value when, in the column
\* before the first capping, none of the values from which Q1 and Q3 are
\* interpolated lies outside [Q1 - 1.5 IQR, Q3 + 1.5 IQR]; otherwise the
\* recomputed bounds can be narrower and the second capping moves values
\* again (<<0, 0, 0, 1>> gives 5/8 and then 25/64 in the last row).
C6_CapIdempotentInsideRanks ==
    (CappedTwice /\ RanksInside(ColumnBefore(Len(iqr_hist) - 1)))
        => ColumnNow = ColumnBefore(Len(iqr_hist))

\* <<0, 0, 0, 0, 1>>: the first capping moves the 1 to 0, the second finds
\* nothing to change
C6_Witness ==
    /\ CappedTwice
    /\ Len(iqr_hist) = 2
    /\ ColumnBefore(1) =
          <<Rat(0, 1), Rat(0, 1), Rat(0, 1), Rat(0, 1), Rat(1, 1)>>
    /\ RanksInside(ColumnBefore(1))
    /\ ColumnBefore(2) # ColumnBefore(1)
    /\ ColumnNow = ColumnBefore(2)

(***************************************************************************)
(* Properties of create_transaction_features                               *)
(***************************************************************************)
\* the call ran to its end without an exception
TxSucceeded == tx_args # Pending /\ tx_err = Null

\* the rows of the table given to the call whose group key is g
TxGroupRows(g) ==
    {j \in 1..Len(tx_args.data.rows) :
        tx_args.data.rows[j][tx_args.user_id_column] = g}

\* the times, in seconds, of the rows of group g that have one
TxGroupSeconds(g) ==
    {tx_args.data.rows[j][tx_args.transaction_time_column].text :
        j \in {i \in TxGroupRows(g) :
                  tx_args.data.rows[i][tx_args.transaction_time_column] # Null}}

TxGroupOf(r) == r[tx_args.user_id_column]

\* C8 as stated: transaction_count on each record is the number of records
\* with the record's group key, whatever their timestamp, and the three
\* grouped columns take one value on all records sharing a group key.
C8_CountAllRecords ==
    TxSucceeded =>
        \A k \in 1..Len(tx_data.rows) :
            /\ tx_data.rows[k].transaction_count
                  = Cardinality(TxGroupRows(TxGroupOf(tx_data.rows[k])))
            /\ \A j \in TxGroupRows(TxGroupOf(tx_data.rows[k])) :
                  \A c \in TxFeatureCols :
                      tx_data.rows[j][c] = tx_data.rows[k][c]

\* C9 for one row r of the returned table
C9_Row(r) ==
    /\ TxGroupSeconds(TxGroupOf(r)) # {} =>
          /\ r.days_since_first_transaction =
                [n |-> (SetMax(TxGroupSeconds(TxGroupOf(r)))
                           - SetMin(TxGroupSeconds(TxGroupOf(r))))
                              \div SecondsPerDay + 1,
                 d |-> 1]
          /\ r.days_since_first_transaction.n >= 1
          /\ Cardinality(TxGroupRows(TxGroupOf(r))) = 1
                => r.days_since_first_transaction.n = 1
          /\ r.transaction_velocity.n * r.days_since_first_transaction.n
                = r.transaction_count * r.transaction_velocity.d
    /\ r.days_since_first_transaction # Null
          => r.days_since_first_transaction.n # 0
    /\ (/\ Cardinality(TxGroupRows(TxGroupOf(r))) = 2
        /\ TxGroupSeconds(TxGroupOf(r)) = {0, 5 * SecondsPerDay}) =>
          /\ r.transaction_count = 2
          /\ r.days_since_first_transaction = [n |-> 6, d |-> 1]
          /\ r.transaction_velocity = [n |-> 1, d |-> 3]

ClReturnedBoth ==
    /\ cl_args # Pending
    /\ ~IsRaise(cl_ret)
    /\ {"signup_time", "purchase_time"} \subseteq cl_args.data.cols

\* C10 for the row r of the returned table made from the row o of the input
C10_Row(r, o) ==
    /\ \A c \in DOMAIN o : r[c] = o[c]
    /\ (o.signup_time = Null \/ o.purchase_time = Null)
          => r.time_since_signup = Null
    /\ (o.signup_time # Null /\ o.purchase_time # Null) =>
          /\ r.time_since_signup # Null
          /\ r.time_since_signup.n * SecondsPerHour
                = (o.purchase_time.text - o.signup_time.text)
                     * r.time_since_signup.d

\* C10: time_since_signup is, record by record, purchase_time minus
\* signup_time in hours; a record missing either time keeps its place with a
\* null time_since_signup; the returned table has the records of the input
\* in the order of the input.
C10_TimeSinceSignup ==
    ClReturnedBoth =>
        /\ Len(cl_ret.rows) = Len(cl_args.data.rows)
        /\ \A k \in 1..Len(cl_ret.rows) :
              C10_Row(cl_ret.rows[k], cl_args.data.rows[k])

\* a record without signup_time followed by a purchase an hour and a half
\* after the signup
C10_Witness ==
    /\ ClReturnedBoth
    /\ Len(cl_ret.rows) = 2
    /\ cl_args.data.rows[1].signup_time = Null
    /\ cl_ret.rows[1].id = 1
    /\ cl_ret.rows[1].time_since_signup = Null
    /\ cl_args.data.rows[2].signup_time = TimeText(0)
    /\ cl_args.data.rows[2].purchase_time = TimeText(SecondsPerHour + SecondsPerHour \div 2)
    /\ cl_ret.rows[2].id = 2
    /\ cl_ret.rows[2].time_since_signup = [n |-> 3, d |-> 2]

(***************************************************************************)
(* Properties of normalize_columns                                         *)
(***************************************************************************)
\* the non-null values of a column
ValuesOf(col) == {col[k] : k \in {j \in 1..Len(col) : col[j] # Null}}

\* the rows of a column that hold its least and its greatest value
RowsOfMin(col) ==
    {k \in 1..Len(col) :
        col[k] # Null /\ \A y \in ValuesOf(col) : RatLeq(col[k], y)}

RowsOfMax(col) ==
    {k \in 1..Len(col) :
        col[k] # Null /\ \A y \in ValuesOf(col) : RatLeq(y, col[k])}

\* C11 for one call: the column before and after
C11_Call(before, after) ==
    /\ Cardinality(ValuesOf(before)) >= 2 =>
          /\ \A k \in RowsOfMin(before) : after[k] = [n |-> 0, d |-> 1]
          /\ \A k \in RowsOfMax(before) : after[k] = [n |-> 1, d |-> 1]
          /\ \A k \in 1..Len(before) :
                before[k] # Null =>
                    /\ RatLeq([n |-> 0, d |-> 1], after[k])
                    /\ RatLeq(after[k], [n |-> 1, d |-> 1])
    /\ Cardinality(ValuesOf(before)) = 1 =>
          \A k \in 1..Len(before) :
              before[k] # Null => after[k] = [n |-> 0, d |-> 1]

\* C11 as stated: in a column with at least two distinct values the least
\* value is normalized to exactly 0, the greatest to exactly 1 and every
\* value to something in [0, 1]; a constant column is normalized to 0.
C11_MinMaxExact ==
    \A i \in 1..Len(nm_hist) : C11_Call(nm_hist[i].before, nm_hist[i].after)

\* C19 as stated: the second batch a DataCleaner normalizes is scaled with
\* the minimum and maximum fitted on its first batch, so a value found in
\* both batches is normalized to the same value in both.
C19_RetainedScalerReused ==
    Len(nm_hist) >= 2 =>
        /\ nm_hist[2].after
              = transform(fit(nm_hist[1].before), nm_hist[2].before)
        /\ \A j \in 1..Len(nm_hist[1].before),
              k \in 1..Len(nm_hist[2].before) :
                nm_hist[1].before[j] = nm_hist[2].before[k]
                    => nm_hist[1].after[j] = nm_hist[2].after[k]

(***************************************************************************)
(* Properties of encode_categorical                                        *)
(***************************************************************************)
EncCalled == enc_args # Pending

\* the distinct non-null values of column col of the table given to the call
EncDistinct(col) ==
    {enc_args.data.rows[k][col].cat :
        k \in {j \in 1..Len(enc_args.data.rows) :
                  enc_args.data.rows[j][col] # Null}}

\* the columns of the returned table that are indicators of column col
EncIndicators(col) ==
    {x \in enc_ret.cols : \E c \in {"a", "b", "c"} : x = col \o "_" \o c}

\* column col is in the returned table as it was given
EncUntouched(col) ==
    /\ col \in enc_ret.cols
    /\ Len(enc_ret.rows) = Len(enc_args.data.rows)
    /\ \A k \in 1..Len(enc_ret.rows) :
          enc_ret.rows[k][col] = enc_args.data.rows[k][col]

\* column col was replaced by indicator columns: one for each of its
\* distinct values, or one for each but one when drop_first is set
EncExpanded(col) ==
    /\ col \notin enc_ret.cols
    /\ EncIndicators(col) \subseteq {col \o "_" \o c : c \in EncDistinct(col)}
    /\ Cardinality(EncIndicators(col)) =
          IF enc_args.drop_first /\ EncDistinct(col) # {}
          THEN Cardinality(EncDistinct(col)) - 1
          ELSE Cardinality(EncDistinct(col))
    /\ \A k \in 1..Len(enc_ret.rows) : \A x \in EncIndicators(col) :
          enc_ret.rows[k][x] =
              (/\ enc_args.data.rows[k][col] # Null
               /\ x = col \o "_" \o enc_args.data.rows[k][col].cat)

\* C12: a categorical column is expanded into indicator columns exactly
\* when its number of distinct non-null values is at most
\* cardinality_threshold; a column with more distinct values stays in the
\* table as it was and gets no indicator column, whatever the other
\* categorical column is and whichever of the two is processed first.
C12_EncodeIffWithinThreshold ==
    EncCalled =>
        \A col \in {"source", "browser"} :
            /\ Cardinality(EncDistinct(col)) > enc_args.cardinality_threshold
                  => EncUntouched(col) /\ EncIndicators(col) = {}
            /\ Cardinality(EncDistinct(col)) <= enc_args.cardinality_threshold
                  => EncExpanded(col)

\* threshold 2: source has three categories and stays, browser has two and
\* is expanded, with browser processed first
C12_Witness ==
    /\ EncCalled
    /\ enc_args.cardinality_threshold = 2
    /\ enc_args.categorical_cols = <<"browser", "source">>
    /\ ~enc_args.drop_first
    /\ EncDistinct("source") = {"a", "b", "c"}
    /\ EncDistinct("browser") = {"a", "b"}
    /\ enc_ret.cols = {"id", "source", "browser_a", "browser_b"}
    /\ EncUntouched("source")

(***************************************************************************)
(* Properties of the failures of create_transaction_features               *)
(***************************************************************************)
\* the call was made with a group or time column the table does not have
TxColumnMissing ==
    /\ tx_args # Pending
    /\ \/ tx_args.user_id_column \notin tx_args.data.cols
       \/ tx_args.transaction_time_column \notin tx_args.data.cols

\* C13 as stated: a call made with a missing column fails in a way its
\* caller can observe, an exception naming the column, and does not return
\* a table as a successful call does.
C13_MissingColumnFails ==
    TxColumnMissing => IsRaise(tx_ret) /\ tx_ret = Raise("KeyError")

\* C15 as stated: when the call fails at any step, the table it returns and
\* the caller's table are the table as it was before the call, value types
\* included.
C15_FailureLeavesTable ==
    (tx_args # Pending /\ tx_err # Null) =>
        /\ tx_ret = tx_args.data
        /\ tx_data = tx_args.data

(***************************************************************************)
(* Properties of clean_data                                                *)
(***************************************************************************)
\* C14 as stated: for every input, a non-empty outlier_columns included,
\* clean_data runs outlier handling once for each column of
\* outlier_columns, then normalization, then categorical encoding, and
\* returns the table.
C14_StagesInOrder ==
    cd_args # Pending =>
        /\ ~IsRaise(cd_ret)
        /\ cd_trace =
              [i \in 1..Len(cd_args.outlier_columns) |-> "handle_outliers"]
                  \o <<"normalize_columns", "encode_categorical">>

(***************************************************************************)
(* Properties of detect_outliers on short columns                          *)
(***************************************************************************)
\* the number of non-null values of a column
CountValues(col) == Cardinality({k \in 1..Len(col) : col[k] # Null})

\* C17 as stated: an IQR capping of a column with fewer than 4 non-null
\* values changes no value of the column and returns an empty outlier index.
C17_ShortColumnUnchanged ==
    (IsIqrCap(Len(iqr_hist)) /\ CountValues(ColumnBefore(Len(iqr_hist))) < 4)
        => /\ ColumnNow = ColumnBefore(Len(iqr_hist))
           /\ iqr_ret.index = {}

(***************************************************************************)
(* Properties of handle_outliers                                           *)
(***************************************************************************)
HoCalled == ho_args # Pending

\* the table pair number i of the call was applied to
HoBefore(i) == IF i = 1 THEN ho_args.df ELSE ho_trace[i - 1]

\* Q1 - t * IQR and Q3 + t * IQR for the quartiles q1 and q3
HoLower(q1, q3) ==
    RatSub(q1, RatScale(RatSub(q3, q1),
                        ho_args.threshold.n, ho_args.threshold.d))

HoUpper(q1, q3) ==
    RatAdd(q3, RatScale(RatSub(q3, q1),
                        ho_args.threshold.n, ho_args.threshold.d))

\* the value x lies within the bounds lo and hi
HoInside(x, lo, hi) == x # Null /\ RatLeq(lo, x) /\ RatLeq(x, hi)

\* the value x lies within the bounds computed from a column with the
\* quartiles q1 and q3, or from a column without values
HoInsideOf(x, q1, q3) ==
    q1 # Null /\ HoInside(x, HoLower(q1, q3), HoUpper(q1, q3))

\* the identifiers of the rows of a table, in row order
IdsOf(t) == [k \in 1..Len(t.rows) |-> t.rows[k].id]

\* is the sequence of identifiers increasing: the rows kept their order
Increasing(ids) == \A j, k \in 1..Len(ids) : j < k => ids[j] < ids[k]

\* the table after is the table before without the rows whose value of col
\* is outside the bounds of the quartiles q1 and q3
HoKeepsInside(before, after, col, q1, q3) ==
    /\ \A k \in 1..Len(before.rows) :
          (\E j \in 1..Len(after.rows) : after.rows[j] = before.rows[k])
              <=> HoInsideOf(before.rows[k][col], q1, q3)
    /\ \A j \in 1..Len(after.rows) :
          \E k \in 1..Len(before.rows) : before.rows[k] = after.rows[j]
    /\ Increasing(IdsOf(after))

\* C16 for pair number i: with method "iqr" the rows kept are exactly those
\* rows of the table the pair was applied to whose value is inside the
\* bounds computed from that table
C16_Pair(i) ==
    IF ho_args.column_method[i][2] = "iqr"
    THEN HoKeepsInside(HoBefore(i), ho_trace[i], ho_args.column_method[i][1],
             quantile(ColumnOf(HoBefore(i), ho_args.column_method[i][1]), 1),
             quantile(ColumnOf(HoBefore(i), ho_args.column_method[i][1]), 3))
    ELSE ho_trace[i] = HoBefore(i)

MdReturned == md_args # Unused /\ md_ret # Pending /\ md_ret # Null

\* the key of a record of the call: its address as an integer
MdKey(r) == astype_int(r.ip_address)

\* the rows of the returned table that come from record id
MdRowsOf(id) == {k \in 1..Len(md_ret.rows) : md_ret.rows[k].id = id}

\* no interval of the call contains the key
MdInNoInterval(key) ==
    \A j \in 1..Len(md_args.ip.rows) : ~Contains(md_args.ip.rows[j], key)

\* the row carries no payload: the asof merge found no interval for it, so
\* every column of the reference table is null in it
MdNullPayload(row) ==
    /\ row.lower_bound_ip_address = Null
    /\ row.country = Null

\* C18 as stated: in the table merge_datasets returns over a valid reference
\* set, every input record appears exactly once, and a record whose key lies
\* in no interval has a null payload.
C18_UnmatchedHasNullPayload ==
    (MdReturned /\ NonOverlapping(md_args.ip.rows)) =>
        \A k \in 1..Len(md_args.fraud.rows) :
            LET r == md_args.fraud.rows[k]
            IN  /\ Cardinality(MdRowsOf(r.id)) = 1
                /\ MdInNoInterval(MdKey(r)) =>
                      \A i \in MdRowsOf(r.id) : MdNullPayload(md_ret.rows[i])

(***************************************************************************)
(* Properties of the join key of merge_fraud_with_geolocation              *)
(***************************************************************************)
\* the value is a number (neither null nor a string nor infinite)
IsNumeric(c) == "mag" \in DOMAIN c

\* every address of the call is null or a number
NumericAddresses ==
    \A k \in 1..Len(geo_args.fraud.rows) :
        LET c == geo_args.fraud.rows[k].ip_address
        IN  c = Null \/ IsNumeric(c)

\* 0 <= int(x) <= 4294967295 for the number x: x is above -1 and below 2^32
TruncInRange(x) == (~x.neg \/ x.mag = U32(0, 0)) /\ x.mag # TooBig

\* the rows of the caller's fraud table, as the call left it, that come from
\* record id
KeyedRowsOf(id) ==
    {k \in 1..Len(fraud_data.rows) : fraud_data.rows[k].id = id}

\* C20: in a call of merge_fraud_with_geolocation on addresses that are null
\* or numbers, a record whose address x has 0 <= int(x) <= 4294967295 goes to
\* the join once and with the key int(x), x truncated toward zero; a record
\* whose int(x) is negative or above 4294967295, and a record with a null
\* address, is no longer in the table that goes to the join.
C20_KeyIsTruncatedAddress ==
    (GeoCalled /\ NumericAddresses) =>
        \A k \in 1..Len(geo_args.fraud.rows) :
            LET r == geo_args.fraud.rows[k]
            IN  IF r.ip_address # Null /\ TruncInRange(r.ip_address)
                THEN /\ Cardinality(KeyedRowsOf(r.id)) = 1
                     /\ \A i \in KeyedRowsOf(r.id) :
                           fraud_data.rows[i].ip_int = r.ip_address.mag
                ELSE KeyedRowsOf(r.id) = {}

\* a call on 65535.5 and 4294967296: the first record is keyed 65535, the
\* second is dropped
C20_Witness ==
    /\ GeoCalled
    /\ Len(geo_args.fraud.rows) = 2
    /\ geo_args.fraud.rows[1].ip_address = Num(FALSE, KeyOf(1), TRUE)
    /\ geo_args.fraud.rows[2].ip_address = Num(FALSE, TooBig, FALSE)
    /\ Len(fraud_data.rows) = 1
    /\ fraud_data.rows[1].id = 1
    /\ fraud_data.rows[1].ip_int = KeyOf(1)

====
